---- MODULE Spec2Model ----
(***************************************************************************)
(* klangscribe orchestration: the directory claim store                    *)
(* (directory_processing_state / directory_metadata) as PostgresResource   *)
(* and DirectoryProcessingResource implement it, the watch-directory       *)
(* sensor, the dir_collection_job pipeline and the manifest asset.         *)
(***************************************************************************)
EXTENDS Integers, Sequences, FiniteSets, TLC

(* ------------------------------ bounds --------------------------------- *)
\* the clock runs over 0..MaxTime (hours)
MaxTime == 3
\* sweep timeouts (timeout_hours) are drawn from 0..MaxTimeout
MaxTimeout == 1
\* number of concurrent direct callers of mark_directory_as_processing
NumCallers == 2
\* number of sensor instances whose ticks may overlap
NumPollers == 2
\* SENSOR_BATCH_SIZE is drawn from 1..MaxBatch at every tick
MaxBatch == 2
\* _collect_valid_songs is given at most MaxRows rows
MaxRows == 3
\* the first row's files_json has at most MaxFiles entries
MaxFiles == 3
\* direct callers of store_directory_metadata stop when directory_metadata
\* holds MaxStored rows
MaxStored == 2

\* completed_at TIMESTAMP is nullable: the NULL timestamp
NULL == -1

\* the directories that may appear under /mnt/watch_dir, in sorted() order
NameOrder == <<"songA", "songB">>
Names == {NameOrder[k] : k \in 1..Len(NameOrder)}
Callers == 1..NumCallers
Pollers == 1..NumPollers
Timeouts == 0..MaxTimeout
\* the run_id each direct caller passes: the first calls as the sensor does
\* (run_id=None), the others pass a run id
RunIdOf(c) == IF c = 1 THEN "None" ELSE "run1"

\* the regular files of each directory
DirFiles(n) ==
    IF n = "songA" THEN {"a.opus", "b.chart", "c.ini"}
                   ELSE {"a.opus", "c.ini"}

\* [f for f in os.listdir(dirpath) if os.path.isfile(...)]: os.listdir
\* returns the entries in arbitrary order, so the list is the directory's
\* files in any order
listdir_files(files) ==
    {l \in [1..Cardinality(files) -> files] :
        \A i, j \in 1..Cardinality(files) : l[i] = l[j] => i = j}

\* os.path.getsize of a file
FileSize(f) ==
    IF f = "a.opus" THEN 3 ELSE IF f = "b.chart" THEN 2 ELSE 1

\* claims are inserted while the clock leaves room for the largest timeout
\* to elapse afterwards
LastClaimTime == MaxTime - MaxTimeout - 1

VARIABLES
    now,        \* the database clock (NOW() / CURRENT_TIMESTAMP)
    tables,     \* whether the two tables exist in the database
    claims,     \* committed rows of directory_processing_state, keyed by dirname
    inflight,   \* dirnames with an uncommitted INSERT
    metadata,   \* rows of directory_metadata, in insertion order
    objects,    \* object keys present in the data-collection bucket
    fs,         \* directories under the watch root, with their mtime
    call,       \* direct callers of mark_directory_as_processing, by statement
    lastOp,     \* the other direct store call under way or just made
    poller,     \* the sensor instances' ticks
    emitted,    \* the RunRequests the sensor has yielded, in order
    run,        \* the dir_collection_job run of each directory
    result_rows, \* the rows handed to _collect_valid_songs
    manifest,   \* what _collect_valid_songs returned: the rows and the counts
    watch_dir,  \* whether the watch root /mnt/watch_dir exists
    dir_files   \* the regular files each directory holds

storeVars == <<now, tables, claims, inflight, metadata>>
callVars == <<call, lastOp>>
jobVars == <<objects, fs, poller, emitted, run>>
buildVars == <<result_rows, manifest>>
rootVars == <<watch_dir, dir_files>>
vars == <<now, tables, claims, inflight, metadata, objects, fs, call, lastOp,
          poller, emitted, run, result_rows, manifest,
          watch_dir, dir_files>>

(* ------------- PostgresResource: the store over a cursor --------------- *)

\* directory_processing_state row as INSERTed by mark_directory_as_processing:
\* status 'processing', started_at DEFAULT CURRENT_TIMESTAMP, completed_at NULL
NewClaimRecord(started, run_id) ==
    [status |-> "processing", started_at |-> started,
     completed_at |-> NULL, run_id |-> run_id]

\* the PRIMARY KEY on dirname: an INSERT of a key whose row is committed
\* raises psycopg2.IntegrityError
InsertConflicts(n) == n \in DOMAIN claims

\* the table after the INSERT's transaction commits
CommitInsert(tbl, n, started, run_id) ==
    IF n \in DOMAIN tbl THEN tbl
    ELSE [d \in DOMAIN tbl \cup {n} |->
            IF d = n THEN NewClaimRecord(started, run_id) ELSE tbl[d]]

\* PostgresResource.mark_directory_as_completed: UPDATE ... SET status =
\* 'completed', completed_at = CURRENT_TIMESTAMP WHERE dirname = %s. The
\* method does not create the table: without it the UPDATE raises
pg_mark_directory_as_completed(exists, tbl, n, t) ==
    IF ~exists THEN [raised |-> "UndefinedTable", tbl |-> tbl]
    ELSE [raised |-> "none",
          tbl |-> [d \in DOMAIN tbl |->
                     IF d = n
                     THEN [tbl[d] EXCEPT !.status = "completed",
                                         !.completed_at = t]
                     ELSE tbl[d]]]

\* a mark_directory_as_failed that queues the directory again
pg_mark_failed_requeues(exists, tbl, n, t) ==
    IF ~exists THEN [raised |-> "UndefinedTable", tbl |-> tbl]
    ELSE [raised |-> "none",
          tbl |-> [d \in DOMAIN tbl |->
                     IF d = n
                     THEN [tbl[d] EXCEPT !.status = "processing",
                                         !.started_at = t]
                     ELSE tbl[d]]]

\* PostgresResource.mark_directory_as_failed: UPDATE ... SET status =
\* 'failed', completed_at = CURRENT_TIMESTAMP WHERE dirname = %s. The method
\* does not create the table: without it the UPDATE raises
pg_mark_directory_as_failed(exists, tbl, n, t) ==
    IF ~exists THEN [raised |-> "UndefinedTable", tbl |-> tbl]
    ELSE [raised |-> "none",
          tbl |-> [d \in DOMAIN tbl |->
                     IF d = n
                     THEN [tbl[d] EXCEPT !.status = "failed",
                                         !.completed_at = t]
                     ELSE tbl[d]]]

\* PostgresResource.get_processed_directories: SELECT dirname FROM
\* directory_processing_state, as a set
pg_get_processed_directories(tbl) == DOMAIN tbl

\* WHERE status = 'processing'
\*   AND started_at < NOW() - INTERVAL '%s hours'
StuckWhere(rec, t, timeout) ==
    rec.status = "processing" /\ rec.started_at < t - timeout

\* PostgresResource.get_stuck_directories: the dirnames the SELECT returns
pg_get_stuck_directories(tbl, t, timeout) ==
    {d \in DOMAIN tbl : StuckWhere(tbl[d], t, timeout)}

\* the WHERE clause of cleanup_stuck_directories' UPDATE
CleanupWhere(rec, t, timeout) ==
    rec.status = "processing" /\ rec.started_at < t - timeout

\* a sweep that sets status = 'failed' and leaves completed_at alone
pg_cleanup_without_completed_at(tbl, t, timeout) ==
    [d \in DOMAIN tbl |->
        IF CleanupWhere(tbl[d], t, timeout)
        THEN [tbl[d] EXCEPT !.status = "failed"]
        ELSE tbl[d]]

\* PostgresResource.cleanup_stuck_directories: the table after the UPDATE
pg_cleanup_stuck_directories(tbl, t, timeout) ==
    [d \in DOMAIN tbl |->
        IF CleanupWhere(tbl[d], t, timeout)
        THEN [tbl[d] EXCEPT !.status = "failed", !.completed_at = t]
        ELSE tbl[d]]

\* PostgresResource.cleanup_stuck_directories: cursor.rowcount
pg_cleanup_rowcount(tbl, t, timeout) ==
    Cardinality({d \in DOMAIN tbl : CleanupWhere(tbl[d], t, timeout)})

\* PostgresResource.store_directory_metadata: INSERT INTO directory_metadata,
\* id SERIAL, uploaded_at DEFAULT CURRENT_TIMESTAMP
pg_store_directory_metadata(rows, dirname, file_count, total_size, files, t) ==
    Append(rows, [id |-> Len(rows) + 1, dirname |-> dirname,
                  file_count |-> file_count, total_size |-> total_size,
                  files_json |-> files, uploaded_at |-> t])

\* the rows in every order: a SELECT without ORDER BY promises none
Arrangements(rows) ==
    {[k \in 1..Len(rows) |-> rows[p[k]]] : p \in Permutations(1..Len(rows))}

\* SELECT ... FROM directory_metadata ORDER BY uploaded_at DESC: the rows
\* with the later uploaded_at first; the statement names no second key, so
\* rows of equal uploaded_at come in any order
OrderByUploadedAtDesc(rows) ==
    {l \in Arrangements(rows) :
        \A i, j \in 1..Len(l) : i < j => l[i].uploaded_at >= l[j].uploaded_at}

\* "if dirname": None and the empty string are falsy
Falsy == {"None", ""}

\* PostgresResource.get_directory_metadata(dirname): with a dirname the rows
\* WHERE dirname = %s, without one (None, or an empty string) every row,
\* newest first; the lists cursor.fetchall() may return
pg_get_directory_metadata(rows, dirname) ==
    IF dirname \notin Falsy
    THEN Arrangements(SelectSeq(rows, LAMBDA r : r.dirname = dirname))
    ELSE OrderByUploadedAtDesc(rows)

\* PostgresResource.get_processing_stats: the number of rows of each status
\* that occurs (GROUP BY status), and under 'total_processed' the number of
\* rows of directory_metadata
pg_get_processing_stats(tbl, rows) ==
    LET present == {tbl[d].status : d \in DOMAIN tbl}
    IN [k \in present \cup {"total_processed"} |->
          IF k = "total_processed" THEN Len(rows)
          ELSE Cardinality({d \in DOMAIN tbl : tbl[d].status = k})]

(* ----- DirectoryProcessingResource: the store over the same connection -- *)

\* conn.execute(text(...)) on the connection self.pg.get_connection() yields:
\* that is the psycopg2 connection, which has cursor(), commit(), rollback()
\* and close() and no execute, so the attribute lookup raises AttributeError
\* before any statement is sent; get_connection rolls back, closes and
\* re-raises
conn_execute == "AttributeError"

\* DirectoryProcessingResource.mark_directory_as_processing: the first
\* statement, conn.execute in _ensure_tables_exist, raises; the except clause
\* around the INSERT (sqlalchemy's IntegrityError) is not reached
mark_directory_as_processing(tbl, n, started, run_id) ==
    [raised |-> conn_execute, ret |-> FALSE, tbl |-> tbl]

\* DirectoryProcessingResource.mark_directory_as_completed: conn.execute of
\* the UPDATE raises
mark_directory_as_completed(tbl, n, t) ==
    [raised |-> conn_execute, tbl |-> tbl]

\* DirectoryProcessingResource.mark_directory_as_failed: conn.execute of the
\* UPDATE raises
mark_directory_as_failed(tbl, n, t) ==
    [raised |-> conn_execute, tbl |-> tbl]

\* DirectoryProcessingResource.get_processed_directories: conn.execute in
\* _ensure_tables_exist raises, no set is returned
get_processed_directories(tbl) ==
    [raised |-> conn_execute, dirnames |-> {}]

\* DirectoryProcessingResource.get_stuck_directories: conn.execute in
\* _ensure_tables_exist raises, no list is returned
get_stuck_directories(tbl, t, timeout) ==
    [raised |-> conn_execute, dirnames |-> {}]

\* DirectoryProcessingResource.cleanup_stuck_directories: conn.execute in
\* _ensure_tables_exist raises, no row is changed and no count is returned
cleanup_stuck_directories(tbl, t, timeout) ==
    [raised |-> conn_execute, rowcount |-> 0, tbl |-> tbl]

\* DirectoryProcessingResource.store_directory_metadata: conn.execute in
\* _ensure_tables_exist raises, no row is inserted
store_directory_metadata(rows, dirname, file_count, total_size, files, t) ==
    [raised |-> conn_execute, rows |-> rows]

\* DirectoryProcessingResource.get_directory_metadata: conn.execute in
\* _ensure_tables_exist raises, no list is returned
get_directory_metadata(rows, dirname) ==
    [raised |-> conn_execute, rows |-> << >>]

\* DirectoryProcessingResource.get_processing_stats: conn.execute in
\* _ensure_tables_exist raises, no dict is returned
get_processing_stats(tbl, rows) ==
    [raised |-> conn_execute, stats |-> << >>]

(* ------------------------- direct store callers ------------------------ *)

\* a caller that has not called mark_directory_as_processing yet
IdleCall ==
    [pc |-> "idle", via |-> "none", name |-> "", started |-> 0,
     run_id |-> "None", ret |-> "none"]

\* no direct call has just been made. A call that is under way or has just
\* returned is recorded with its method (op), its arguments (name, timeout),
\* the CURRENT_TIMESTAMP of its transaction (at), the timeout of the sweep
\* that had just returned when it was made (after_sweep, NULL if none), how
\* far it has come (pc) and how it ended (ret, result, raised)
NoOp ==
    [op |-> "none", pc |-> "returned", name |-> "", timeout |-> 0, at |-> 0,
     after_sweep |-> NULL, ret |-> 0, raised |-> "none", result |-> << >>]

\* the direct call just made has not returned yet
Waiting == lastOp.pc # "returned"

\* what a step of another caller leaves of lastOp: a call that is under way
\* stays as it is, a call that has returned is no longer the last thing that
\* happened
Quiet == IF Waiting THEN lastOp ELSE NoOp

\* the files argument a direct caller passes to store_directory_metadata for
\* directory n: the records of its files as process_directory builds them
StoreArgs(n) ==
    LET files == SelectSeq(<<"a.opus", "b.chart", "c.ini">>,
                           LAMBDA f : f \in DirFiles(n))
    IN [j \in 1..Len(files) |->
          [filename |-> files[j],
           storage_path |-> <<"data-collection", "collected", n, files[j]>>,
           file_size |-> FileSize(files[j])]]

\* the total_size argument passed with them: the sum of the file sizes
StoreTotal(n) ==
    LET recs == StoreArgs(n)
        sum[k \in 0..Len(recs)] ==
            IF k = 0 THEN 0 ELSE sum[k - 1] + recs[k].file_size
    IN sum[Len(recs)]

\* the direct calls that are sweeps
SweepOps == {"pg.cleanup_stuck_directories", "dir_proc.cleanup_stuck_directories"}

\* the direct calls of the PostgresResource methods that start with
\* _ensure_tables_exist and go on to directory_processing_state, with their
\* arguments
StateCalls ==
    {[op |-> o, name |-> "", timeout |-> t] :
        o \in {"pg.cleanup_stuck_directories", "pg.get_stuck_directories"},
        t \in Timeouts}
    \cup {[op |-> "pg.get_processed_directories", name |-> "", timeout |-> 0]}

\* those that go on to directory_metadata
MetadataCalls ==
    {[op |-> "pg.get_processing_stats", name |-> "", timeout |-> 0]}
    \cup {[op |-> "pg.store_directory_metadata", name |-> n, timeout |-> 0] :
        n \in Names}
    \cup {[op |-> "pg.get_directory_metadata", name |-> d, timeout |-> 0] :
        d \in Names \cup Falsy}

\* the direct calls of the PostgresResource methods that send their UPDATE
\* at once: mark_directory_as_completed and mark_directory_as_failed
UpdatingCalls ==
    {[op |-> o, name |-> n, timeout |-> 0] :
        o \in {"pg.mark_directory_as_completed", "pg.mark_directory_as_failed"},
        n \in Names}

(* ---- the locks of PostgreSQL on directory_processing_state ------------ *)

\* the callers whose open transaction holds the SHARE lock on
\* directory_processing_state: CREATE INDEX IF NOT EXISTS takes it, whether
\* the index exists or not, and the transaction keeps it until it ends
ShareHolders == {c \in Callers : call[c].pc \in {"ensured", "inserted"}}

\* the callers whose open transaction holds ROW EXCLUSIVE on
\* directory_processing_state: those with an uncommitted INSERT. SHARE and
\* ROW EXCLUSIVE of different transactions exclude each other
RowExclusiveHolders == {c \in Callers : call[c].pc = "inserted"}

\* _ensure_tables_exist while the tables are not there and another open
\* transaction has created them: CREATE TABLE IF NOT EXISTS waits for that
\* transaction and, when it has committed, raises psycopg2's UniqueViolation
\* (the catalog's unique index), which no method catches
CreateBlocked ==
    /\ ~tables
    /\ \/ \E c \in Callers : call[c].pc \in {"created", "ensured", "inserted"}
       \/ lastOp.pc \in {"created", "ensured"}

(* ---- PostgresResource.mark_directory_as_processing, by statement ------ *)

\* the call is made: get_connection opens the connection, the first
\* statement opens the transaction (its CURRENT_TIMESTAMP is the time of
\* this step) and the two CREATE TABLE IF NOT EXISTS run. On a new database
\* the first caller creates the tables for itself; a caller that finds them
\* being created by an open transaction waits in CREATE TABLE
PgClaimBegin(c, n, r) ==
    /\ call[c].pc = "idle"
    /\ now <= LastClaimTime
    /\ call' = [call EXCEPT ![c] =
                  [pc |-> IF CreateBlocked THEN "creating" ELSE "created",
                   via |-> "pg", name |-> n, started |-> now, run_id |-> r,
                   ret |-> "none"]]
    /\ lastOp' = Quiet
    /\ UNCHANGED <<storeVars>>
    /\ UNCHANGED <<jobVars, buildVars, rootVars>>

\* a caller that waited in CREATE TABLE IF NOT EXISTS: the creating
\* transaction has committed, the statement raises UniqueViolation outside
\* the try block, get_connection rolls back and the exception reaches the
\* caller
PgClaimRaise(c) ==
    /\ call[c].pc = "creating"
    /\ tables
    /\ call' = [call EXCEPT ![c].pc = "returned", ![c].ret = "UniqueViolation",
                            ![c].started = 0, ![c].run_id = "None"]
    /\ lastOp' = Quiet
    /\ UNCHANGED <<storeVars>>
    /\ UNCHANGED <<jobVars, buildVars, rootVars>>

\* CREATE INDEX IF NOT EXISTS, the last statement of _ensure_tables_exist:
\* it takes the SHARE lock on directory_processing_state and so waits while
\* another transaction holds ROW EXCLUSIVE on it (on tables the transaction
\* has itself created nothing stands in its way)
PgClaimIndex(c) ==
    /\ call[c].pc = "created"
    /\ tables => RowExclusiveHolders \ {c} = {}
    /\ call' = [call EXCEPT ![c].pc = "ensured"]
    /\ lastOp' = Quiet
    /\ UNCHANGED <<storeVars>>
    /\ UNCHANGED <<jobVars, buildVars, rootVars>>

\* the INSERT: it needs ROW EXCLUSIVE and waits while another transaction
\* holds SHARE. A committed row for the key raises psycopg2.IntegrityError,
\* the call returns False and get_connection ends the transaction;
\* otherwise the row stays uncommitted
PgClaimInsert(c) ==
    /\ call[c].pc = "ensured"
    /\ ShareHolders \ {c} = {}
    /\ lastOp.pc # "ensured"
    /\ IF InsertConflicts(call[c].name)
       THEN /\ call' = [call EXCEPT ![c].pc = "returned", ![c].ret = "false",
                                    ![c].started = 0, ![c].run_id = "None"]
            /\ UNCHANGED inflight
       ELSE /\ inflight' = inflight \cup {call[c].name}
            /\ call' = [call EXCEPT ![c].pc = "inserted"]
    /\ lastOp' = Quiet
    /\ UNCHANGED <<now, tables, claims, metadata>>
    /\ UNCHANGED <<jobVars, buildVars, rootVars>>

\* the INSERT of a caller that holds SHARE while another transaction holds
\* SHARE too and is itself to write the table (the INSERT of a claim, the
\* UPDATE of a sweep): each waits for the other's lock, PostgreSQL ends one
\* of them with "deadlock detected"; here this caller. psycopg2's
\* DeadlockDetected is no IntegrityError: get_connection rolls back and the
\* exception reaches the caller
PgClaimDeadlock(c) ==
    /\ call[c].pc = "ensured"
    /\ \/ \E d \in Callers \ {c} : call[d].pc = "ensured"
       \/ lastOp.pc = "ensured" /\ lastOp.op = "pg.cleanup_stuck_directories"
    /\ call' = [call EXCEPT ![c].pc = "returned", ![c].ret = "DeadlockDetected",
                            ![c].started = 0, ![c].run_id = "None"]
    /\ lastOp' = Quiet
    /\ UNCHANGED <<storeVars>>
    /\ UNCHANGED <<jobVars, buildVars, rootVars>>

\* from "return True": get_connection commits on leaving the with block (the
\* tables, if the transaction created them, and the row) and the caller gets
\* True
PgClaimCommit(c) ==
    /\ call[c].pc = "inserted"
    /\ tables' = TRUE
    /\ claims' = CommitInsert(claims, call[c].name, call[c].started, call[c].run_id)
    /\ inflight' = inflight \ {call[c].name}
    /\ call' = [call EXCEPT ![c].pc = "returned", ![c].ret = "true",
                            ![c].started = 0, ![c].run_id = "None"]
    /\ lastOp' = Quiet
    /\ UNCHANGED <<now, metadata>>
    /\ UNCHANGED <<jobVars, buildVars, rootVars>>

(* ---- the other PostgresResource methods, by one caller at a time ------ *)

\* a direct call k of a method that starts with _ensure_tables_exist is
\* made: the connection and the transaction are opened and the two CREATE
\* TABLE IF NOT EXISTS run, as in a claim
PgCallBegin(k) ==
    /\ ~Waiting
    /\ k \in StateCalls \cup MetadataCalls
    /\ k.op = "pg.store_directory_metadata" => Len(metadata) < MaxStored
    /\ lastOp' = [NoOp EXCEPT !.op = k.op, !.name = k.name,
                     !.timeout = k.timeout, !.at = now,
                     !.after_sweep = IF lastOp.op \in SweepOps
                                     THEN lastOp.timeout ELSE NULL,
                     !.pc = IF CreateBlocked THEN "creating" ELSE "created"]
    /\ UNCHANGED <<storeVars, call>>
    /\ UNCHANGED <<jobVars, buildVars, rootVars>>

\* the direct call that waited in CREATE TABLE IF NOT EXISTS: the creating
\* transaction has committed, the statement raises UniqueViolation, the
\* connection is rolled back and the exception reaches the caller
PgCallRaise ==
    /\ lastOp.pc = "creating"
    /\ tables
    /\ lastOp' = [lastOp EXCEPT !.pc = "returned", !.after_sweep = NULL,
                                !.raised = "UniqueViolation"]
    /\ UNCHANGED <<storeVars, call>>
    /\ UNCHANGED <<jobVars, buildVars, rootVars>>

\* CREATE INDEX IF NOT EXISTS of the direct call: SHARE on
\* directory_processing_state, once no other transaction holds ROW EXCLUSIVE
PgCallIndex ==
    /\ lastOp.pc = "created"
    /\ tables => RowExclusiveHolders = {}
    /\ lastOp' = [lastOp EXCEPT !.pc = "ensured"]
    /\ UNCHANGED <<storeVars, call>>
    /\ UNCHANGED <<jobVars, buildVars, rootVars>>

\* the UPDATE of a sweep that holds SHARE beside a claim that holds SHARE
\* and is to INSERT: the deadlock of the two ends the sweep with
\* DeadlockDetected
PgCallDeadlock ==
    /\ lastOp.pc = "ensured"
    /\ lastOp.op = "pg.cleanup_stuck_directories"
    /\ \E c \in Callers : call[c].pc = "ensured"
    /\ lastOp' = [lastOp EXCEPT !.pc = "returned", !.after_sweep = NULL,
                                !.raised = "DeadlockDetected"]
    /\ UNCHANGED <<storeVars, call>>
    /\ UNCHANGED <<jobVars, buildVars, rootVars>>

\* PostgresResource.cleanup_stuck_directories(timeout), from its UPDATE: the
\* statement needs ROW EXCLUSIVE and waits while a claim holds SHARE; NOW()
\* and CURRENT_TIMESTAMP are the time the transaction began. The rowcount
\* is returned and get_connection commits
PgCallSweep(timeout) ==
    /\ lastOp.pc = "ensured"
    /\ lastOp.op = "pg.cleanup_stuck_directories"
    /\ lastOp.timeout = timeout
    /\ ShareHolders = {}
    /\ tables' = TRUE
    /\ claims' = pg_cleanup_stuck_directories(claims, lastOp.at, timeout)
    /\ lastOp' = [lastOp EXCEPT !.pc = "returned", !.after_sweep = NULL,
                     !.ret = pg_cleanup_rowcount(claims, lastOp.at, timeout)]
    /\ UNCHANGED <<now, inflight, metadata, call>>
    /\ UNCHANGED <<jobVars, buildVars, rootVars>>

\* PostgresResource.get_processed_directories(), from its SELECT (a SELECT
\* waits for neither lock)
PgCallKnown ==
    /\ lastOp.pc = "ensured"
    /\ lastOp.op = "pg.get_processed_directories"
    /\ tables' = TRUE
    /\ lastOp' = [lastOp EXCEPT !.pc = "returned", !.after_sweep = NULL,
                     !.ret = Cardinality(pg_get_processed_directories(claims))]
    /\ UNCHANGED <<now, claims, inflight, metadata, call>>
    /\ UNCHANGED <<jobVars, buildVars, rootVars>>

\* PostgresResource.get_stuck_directories(timeout), from its SELECT
PgCallStuck(timeout) ==
    /\ lastOp.pc = "ensured"
    /\ lastOp.op = "pg.get_stuck_directories"
    /\ lastOp.timeout = timeout
    /\ tables' = TRUE
    /\ lastOp' = [lastOp EXCEPT !.pc = "returned", !.after_sweep = NULL,
                     !.ret = Cardinality(
                         pg_get_stuck_directories(claims, lastOp.at, timeout))]
    /\ UNCHANGED <<now, claims, inflight, metadata, call>>
    /\ UNCHANGED <<jobVars, buildVars, rootVars>>

\* PostgresResource.get_processing_stats(), from its two SELECTs
PgCallStats ==
    /\ lastOp.pc = "ensured"
    /\ lastOp.op = "pg.get_processing_stats"
    /\ tables' = TRUE
    /\ lastOp' = [lastOp EXCEPT !.pc = "returned", !.after_sweep = NULL,
                     !.result = pg_get_processing_stats(claims, metadata)]
    /\ UNCHANGED <<now, claims, inflight, metadata, call>>
    /\ UNCHANGED <<jobVars, buildVars, rootVars>>

\* PostgresResource.store_directory_metadata for directory n, from its
\* INSERT: a plain INSERT into directory_metadata, whatever rows the table
\* holds (no lock of another transaction stands in its way)
PgCallStore(n) ==
    /\ lastOp.pc = "ensured"
    /\ lastOp.op = "pg.store_directory_metadata"
    /\ lastOp.name = n
    /\ tables' = TRUE
    /\ metadata' = pg_store_directory_metadata(metadata, n,
                       Len(StoreArgs(n)), StoreTotal(n), StoreArgs(n),
                       lastOp.at)
    /\ lastOp' = [lastOp EXCEPT !.pc = "returned", !.after_sweep = NULL]
    /\ UNCHANGED <<now, claims, inflight, call>>
    /\ UNCHANGED <<jobVars, buildVars, rootVars>>

\* PostgresResource.get_directory_metadata(dirname), from its SELECT: any of
\* the lists the statement may return
PgCallGetMetadata(dirname) ==
    /\ lastOp.pc = "ensured"
    /\ lastOp.op = "pg.get_directory_metadata"
    /\ lastOp.name = dirname
    /\ tables' = TRUE
    /\ \E l \in pg_get_directory_metadata(metadata, dirname) :
         lastOp' = [lastOp EXCEPT !.pc = "returned", !.after_sweep = NULL,
                       !.ret = Len(l),
                       !.result = [k \in 1..Len(l) |-> l[k].id]]
    /\ UNCHANGED <<now, claims, inflight, metadata, call>>
    /\ UNCHANGED <<jobVars, buildVars, rootVars>>

\* a direct call k of mark_directory_as_completed or mark_directory_as_failed
\* whose UPDATE has to wait: the statement opens the transaction and needs
\* ROW EXCLUSIVE while a claim holds SHARE
PgCallWait(k) ==
    /\ ~Waiting
    /\ k \in UpdatingCalls
    /\ tables
    /\ ShareHolders # {}
    /\ lastOp' = [NoOp EXCEPT !.op = k.op, !.name = k.name, !.at = now,
                     !.after_sweep = IF lastOp.op \in SweepOps
                                     THEN lastOp.timeout ELSE NULL,
                     !.pc = "begun"]
    /\ UNCHANGED <<storeVars, call>>
    /\ UNCHANGED <<jobVars, buildVars, rootVars>>

\* a direct call of PostgresResource.mark_directory_as_completed(n): the
\* UPDATE runs once no claim holds SHARE, whatever its rowcount, and the
\* method returns None; on a database without the table it raises
PgCallComplete(n) ==
    /\ \/ ~Waiting
       \/ /\ lastOp.pc = "begun"
          /\ lastOp.op = "pg.mark_directory_as_completed"
          /\ lastOp.name = n
    /\ tables => ShareHolders = {}
    /\ LET at == IF Waiting THEN lastOp.at ELSE now
           res == pg_mark_directory_as_completed(tables, claims, n, at)
       IN /\ claims' = res.tbl
          /\ lastOp' = [NoOp EXCEPT !.op = "pg.mark_directory_as_completed",
                                    !.name = n, !.at = at,
                                    !.raised = res.raised]
    /\ UNCHANGED <<now, tables, inflight, metadata, call>>
    /\ UNCHANGED <<jobVars, buildVars, rootVars>>

\* a direct call of PostgresResource.mark_directory_as_failed(n)
PgCallFail(n) ==
    /\ \/ ~Waiting
       \/ /\ lastOp.pc = "begun"
          /\ lastOp.op = "pg.mark_directory_as_failed"
          /\ lastOp.name = n
    /\ tables => ShareHolders = {}
    /\ LET at == IF Waiting THEN lastOp.at ELSE now
           res == pg_mark_directory_as_failed(tables, claims, n, at)
       IN /\ claims' = res.tbl
          /\ lastOp' = [NoOp EXCEPT !.op = "pg.mark_directory_as_failed",
                                    !.name = n, !.at = at,
                                    !.raised = res.raised]
    /\ UNCHANGED <<now, tables, inflight, metadata, call>>
    /\ UNCHANGED <<jobVars, buildVars, rootVars>>

(* ---- DirectoryProcessingResource, called directly --------------------- *)

\* a direct call of DirectoryProcessingResource.mark_directory_as_processing
CallClaim(c, n, r) ==
    /\ call[c].pc = "idle"
    /\ LET res == mark_directory_as_processing(claims, n, now, r)
       IN /\ claims' = res.tbl
          /\ call' = [call EXCEPT ![c] = [pc |-> "returned",
                         via |-> "dir_proc", name |-> n, started |-> 0,
                         run_id |-> "None",
                         ret |-> IF res.raised # "none" THEN res.raised
                                 ELSE IF res.ret THEN "true" ELSE "false"]]
    /\ lastOp' = Quiet
    /\ UNCHANGED <<now, tables, inflight, metadata>>
    /\ UNCHANGED <<jobVars, buildVars, rootVars>>

\* a direct call of DirectoryProcessingResource.mark_directory_as_completed
CallComplete(n) ==
    /\ ~Waiting
    /\ LET res == mark_directory_as_completed(claims, n, now)
       IN /\ claims' = res.tbl
          /\ lastOp' = [NoOp EXCEPT !.op = "dir_proc.mark_directory_as_completed",
                                    !.name = n, !.raised = res.raised]
    /\ UNCHANGED <<now, tables, inflight, metadata, call>>
    /\ UNCHANGED <<jobVars, buildVars, rootVars>>

\* a direct call of DirectoryProcessingResource.mark_directory_as_failed
CallFail(n) ==
    /\ ~Waiting
    /\ LET res == mark_directory_as_failed(claims, n, now)
       IN /\ claims' = res.tbl
          /\ lastOp' = [NoOp EXCEPT !.op = "dir_proc.mark_directory_as_failed",
                                    !.name = n, !.raised = res.raised]
    /\ UNCHANGED <<now, tables, inflight, metadata, call>>
    /\ UNCHANGED <<jobVars, buildVars, rootVars>>

\* a direct call of DirectoryProcessingResource.cleanup_stuck_directories,
\* by an operator or a schedule
CallSweep(timeout) ==
    /\ ~Waiting
    /\ LET res == cleanup_stuck_directories(claims, now, timeout)
       IN /\ claims' = res.tbl
          /\ lastOp' = [NoOp EXCEPT
                           !.op = "dir_proc.cleanup_stuck_directories",
                           !.timeout = timeout, !.ret = res.rowcount,
                           !.raised = res.raised]
    /\ UNCHANGED <<now, tables, inflight, metadata, call>>
    /\ UNCHANGED <<jobVars, buildVars, rootVars>>

\* a direct call of DirectoryProcessingResource.get_processed_directories
CallKnown ==
    /\ ~Waiting
    /\ lastOp' = [NoOp EXCEPT !.op = "dir_proc.get_processed_directories",
                     !.raised = get_processed_directories(claims).raised,
                     !.ret = Cardinality(get_processed_directories(claims).dirnames)]
    /\ UNCHANGED <<storeVars, call>>
    /\ UNCHANGED <<jobVars, buildVars, rootVars>>

\* a direct call of DirectoryProcessingResource.get_stuck_directories
CallStuck(timeout) ==
    /\ ~Waiting
    /\ LET res == get_stuck_directories(claims, now, timeout)
       IN lastOp' = [NoOp EXCEPT !.op = "dir_proc.get_stuck_directories",
                        !.timeout = timeout, !.raised = res.raised,
                        !.ret = Cardinality(res.dirnames)]
    /\ UNCHANGED <<storeVars, call>>
    /\ UNCHANGED <<jobVars, buildVars, rootVars>>

\* a direct call of DirectoryProcessingResource.store_directory_metadata
CallStore(n) ==
    /\ ~Waiting
    /\ LET res == store_directory_metadata(metadata, n, Len(StoreArgs(n)),
                      StoreTotal(n), StoreArgs(n), now)
       IN /\ metadata' = res.rows
          /\ lastOp' = [NoOp EXCEPT !.op = "dir_proc.store_directory_metadata",
                                    !.name = n, !.raised = res.raised]
    /\ UNCHANGED <<now, tables, claims, inflight, call>>
    /\ UNCHANGED <<jobVars, buildVars, rootVars>>

\* a direct call of DirectoryProcessingResource.get_directory_metadata
CallGetMetadata(dirname) ==
    /\ ~Waiting
    /\ LET res == get_directory_metadata(metadata, dirname)
       IN lastOp' = [NoOp EXCEPT !.op = "dir_proc.get_directory_metadata",
                        !.name = dirname,
                        !.raised = res.raised, !.ret = Len(res.rows)]
    /\ UNCHANGED <<storeVars, call>>
    /\ UNCHANGED <<jobVars, buildVars, rootVars>>

\* a direct call of DirectoryProcessingResource.get_processing_stats
CallStats ==
    /\ ~Waiting
    /\ LET res == get_processing_stats(claims, metadata)
       IN lastOp' = [NoOp EXCEPT !.op = "dir_proc.get_processing_stats",
                        !.raised = res.raised, !.result = res.stats]
    /\ UNCHANGED <<storeVars, call>>
    /\ UNCHANGED <<jobVars, buildVars, rootVars>>

\* an hour passes
Tick ==
    /\ now < MaxTime
    /\ now' = now + 1
    /\ lastOp' = Quiet
    /\ UNCHANGED <<tables, claims, inflight, metadata, call>>
    /\ UNCHANGED <<jobVars, buildVars, rootVars>>
(* ------------------------------- strings ------------------------------- *)
(* A Python str is modelled as the sequence of its characters. *)

\* the characters that occur, in code point order
Alphabet ==
    <<" ", "\"", ",", "-", ".", "/",
      "0", "1", "2", "3", "4", "5", "6", "7", "8", "9", ":",
      "A", "B", "C", "D", "E", "F", "G", "H", "I", "J", "K", "L", "M",
      "N", "O", "P", "Q", "R", "S", "T", "U", "V", "W", "X", "Y", "Z",
      "[", "\\", "]", "_",
      "a", "b", "c", "d", "e", "f", "g", "h", "i", "j", "k", "l", "m",
      "n", "o", "p", "q", "r", "s", "t", "u", "v", "w", "x", "y", "z">>

\* ord, up to an order-preserving renumbering
OrdOf ==
    [ch \in {Alphabet[k] : k \in 1..Len(Alphabet)} |->
        CHOOSE k \in 1..Len(Alphabet) : Alphabet[k] = ch]

\* ord(ch)
Ord(ch) == OrdOf[ch]

\* str.lower() of each character: "A".."Z" go to "a".."z"
LowerOf ==
    [ch \in DOMAIN OrdOf |->
        IF OrdOf[ch] >= OrdOf["A"] /\ OrdOf[ch] <= OrdOf["Z"]
        THEN Alphabet[OrdOf[ch] - OrdOf["A"] + OrdOf["a"]]
        ELSE ch]

\* str.lower(), one character
LowerChar(ch) == LowerOf[ch]

\* str.lower()
lower(s) == [k \in 1..Len(s) |-> LowerChar(s[k])]

\* the characters str.strip() removes
Whitespace == {" "}

\* str.lstrip()
RECURSIVE lstrip(_)
lstrip(s) ==
    IF s # << >> /\ Head(s) \in Whitespace THEN lstrip(Tail(s)) ELSE s

\* str.rstrip()
RECURSIVE rstrip(_)
rstrip(s) ==
    IF s # << >> /\ s[Len(s)] \in Whitespace
    THEN rstrip(SubSeq(s, 1, Len(s) - 1)) ELSE s

\* str.strip()
strip(s) == rstrip(lstrip(s))

\* str.endswith(suffix)
endswith(s, suffix) ==
    /\ Len(suffix) <= Len(s)
    /\ SubSeq(s, Len(s) - Len(suffix) + 1, Len(s)) = suffix

\* a < b for two str (code point by code point, a proper prefix is smaller)
RECURSIVE StrLess(_, _)
StrLess(a, b) ==
    IF b = << >> THEN FALSE
    ELSE IF a = << >> THEN TRUE
    ELSE IF Head(a) = Head(b) THEN StrLess(Tail(a), Tail(b))
    ELSE Ord(Head(a)) < Ord(Head(b))

\* sep.join(parts)
RECURSIVE join(_, _)
join(sep, parts) ==
    IF parts = << >> THEN << >>
    ELSE IF Len(parts) = 1 THEN parts[1]
    ELSE parts[1] \o sep \o join(sep, Tail(parts))

\* json.dumps of a str, without the quotes around it: a double quote and a
\* backslash are written with a backslash before them
RECURSIVE json_escape(_)
json_escape(s) ==
    IF s = << >> THEN << >>
    ELSE (IF Head(s) \in {"\"", "\\"} THEN <<"\\", Head(s)>> ELSE <<Head(s)>>)
         \o json_escape(Tail(s))

\* json.dumps of a list of str
json_dumps(list) ==
    <<"[">> \o join(<<",", " ">>,
                    [k \in 1..Len(list) |->
                        <<"\"">> \o json_escape(list[k]) \o <<"\"">>])
            \o <<"]">>

\* two decimal digits, as %H, %M, %S, %m and %d print them
TwoDigits(k) == <<Alphabet[Ord("0") + (k \div 10)], Alphabet[Ord("0") + (k % 10)]>>

\* uploaded_at.strftime("%Y-%m-%d %H:%M:%S"), the clock counting the hours
\* of January 1970
strftime(t) ==
    <<"1", "9", "7", "0", "-", "0", "1", "-">> \o TwoDigits((t \div 24) + 1)
        \o <<" ">> \o TwoDigits(t % 24) \o <<":", "0", "0", ":", "0", "0">>

(* ------------------------- the manifest builder ------------------------ *)

\* AUDIO_EXTS, CHART_EXTS, INI_EXTS (one extension each)
ExtOpus == <<".", "o", "p", "u", "s">>
ExtChart == <<".", "c", "h", "a", "r", "t">>
ExtIni == <<".", "i", "n", "i">>
\* REQUIRED_EXTS = AUDIO_EXTS + CHART_EXTS + INI_EXTS
REQUIRED_EXTS == {ExtOpus, ExtChart, ExtIni}

\* Python's None where a str is expected
NoPath == <<"None">>

\* str(f.get("filename", "")).strip().lower()
_lname(f) == lower(strip(f.filename))

\* [f for f in files if _lname(f).endswith(REQUIRED_EXTS)]
_filter_required(files) ==
    SelectSeq(files, LAMBDA f : \E e \in REQUIRED_EXTS : endswith(_lname(f), e))

\* the literal head of s3_uuid_prefix_pattern: s3://uns/
PrefixScheme == <<"s", "3", ":", "/", "/", "u", "n", "s", "/">>
\* [0-9a-f]
HexDigits ==
    {"0", "1", "2", "3", "4", "5", "6", "7", "8", "9",
     "a", "b", "c", "d", "e", "f"}
\* where the four "-" of the 8-4-4-4-12 UUID stand
UuidDashes == {9, 14, 19, 24}

\* re.match of s3_uuid_prefix_pattern ("^" anchors it at the first
\* character): the length of the match, 0 when there is none
PrefixMatchLen(s) ==
    IF /\ Len(s) >= Len(PrefixScheme) + 36
       /\ SubSeq(s, 1, Len(PrefixScheme)) = PrefixScheme
       /\ \A k \in 1..36 :
            IF k \in UuidDashes THEN s[Len(PrefixScheme) + k] = "-"
                                ELSE s[Len(PrefixScheme) + k] \in HexDigits
    THEN Len(PrefixScheme) + 36
    ELSE 0

\* a normalization that trims first and removes the prefix after
_strip_then_remove_prefix(storage_path) ==
    SubSeq(strip(storage_path), PrefixMatchLen(strip(storage_path)) + 1,
           Len(strip(storage_path)))

\* re.sub(s3_uuid_prefix_pattern, '', storage_path).strip()
_remove_s3_uuid_prefix(storage_path) ==
    strip(SubSeq(storage_path, PrefixMatchLen(storage_path) + 1,
                 Len(storage_path)))

\* a sort key that leaves the file size out
CandidateKeyLessByName(f, g) ==
    StrLess(_lname(f), _lname(g))

\* the sort key of _pick_single_storage_path: (file_size, _lname)
CandidateKeyLess(f, g) ==
    \/ f.file_size < g.file_size
    \/ f.file_size = g.file_size /\ StrLess(_lname(f), _lname(g))

\* list.sort(key=..., reverse=True), one insertion: the sort is stable, so
\* the new record goes behind the records whose key is not smaller
RECURSIVE InsertCandidate(_, _)
InsertCandidate(sorted, f) ==
    IF sorted = << >> THEN <<f>>
    ELSE IF CandidateKeyLess(Head(sorted), f) THEN <<f>> \o sorted
    ELSE <<Head(sorted)>> \o InsertCandidate(Tail(sorted), f)

\* candidates.sort(key=lambda x: (file_size, _lname(x)), reverse=True)
RECURSIVE SortCandidates(_)
SortCandidates(candidates) ==
    IF candidates = << >> THEN << >>
    ELSE InsertCandidate(
            SortCandidates(SubSeq(candidates, 1, Len(candidates) - 1)),
            candidates[Len(candidates)])

\* _pick_single_storage_path(files, ext)
_pick_single_storage_path(files, ext) ==
    LET candidates == SelectSeq(files, LAMBDA f : endswith(_lname(f), ext))
    IN IF candidates = << >> THEN NoPath
       ELSE _remove_s3_uuid_prefix(SortCandidates(candidates)[1].storage_path)

\* a sort key that leaves the storage path out
OpusKeyLessByName(f, g) ==
    StrLess(_lname(f), _lname(g))

\* the sort key of _sorted_opus_paths: (_lname, storage_path)
OpusKeyLess(f, g) ==
    \/ StrLess(_lname(f), _lname(g))
    \/ _lname(f) = _lname(g) /\ StrLess(f.storage_path, g.storage_path)

\* list.sort(key=...), one insertion (stable)
RECURSIVE InsertOpus(_, _)
InsertOpus(sorted, f) ==
    IF sorted = << >> THEN <<f>>
    ELSE IF OpusKeyLess(f, Head(sorted)) THEN <<f>> \o sorted
    ELSE <<Head(sorted)>> \o InsertOpus(Tail(sorted), f)

\* opus.sort(key=lambda x: (_lname(x), storage_path))
RECURSIVE SortOpus(_)
SortOpus(opus) ==
    IF opus = << >> THEN << >>
    ELSE InsertOpus(SortOpus(SubSeq(opus, 1, Len(opus) - 1)), opus[Len(opus)])

\* _sorted_opus_paths(files)
_sorted_opus_paths(files) ==
    LET opus == SortOpus(SelectSeq(files,
                            LAMBDA f : endswith(_lname(f), ExtOpus)))
        storage_paths == SelectSeq(opus, LAMBDA f : f.storage_path # << >>)
    IN [k \in 1..Len(storage_paths) |->
            _remove_s3_uuid_prefix(storage_paths[k].storage_path)]

\* a check that does not ask for the info file
MissingRequiredIgnoresIni(opus_paths, chart_path, ini_path) ==
    \/ opus_paths = << >>
    \/ chart_path \in {NoPath, << >>}

\* "if not opus_paths or not chart_path or not ini_path"
MissingRequired(opus_paths, chart_path, ini_path) ==
    \/ opus_paths = << >>
    \/ chart_path \in {NoPath, << >>}
    \/ ini_path \in {NoPath, << >>}

\* the counters and the rows before the loop of _collect_valid_songs
NoSongs ==
    [rows |-> << >>, total_songs |-> 0, kept_dirs |-> 0, dropped_missing |-> 0]

\* a loop body that counts a dropped directory as kept as well
CollectStepCountsDroppedAsKept(acc, row) ==
    LET files == _filter_required(row[5])
    IN [acc EXCEPT !.total_songs = @ + 1, !.kept_dirs = @ + 1,
                   !.dropped_missing =
                       IF MissingRequired(_sorted_opus_paths(files),
                              _pick_single_storage_path(files, ExtChart),
                              _pick_single_storage_path(files, ExtIni))
                       THEN @ + 1 ELSE @]

\* the body of the loop of _collect_valid_songs for one row
\* (dir_id, dirname, file_count, total_size, files_json, uploaded_at)
CollectStep(acc, row) ==
    LET files == _filter_required(row[5])
        opus_paths == _sorted_opus_paths(files)
        chart_path == _pick_single_storage_path(files, ExtChart)
        ini_path == _pick_single_storage_path(files, ExtIni)
    IN IF MissingRequired(opus_paths, chart_path, ini_path)
       THEN [acc EXCEPT !.total_songs = @ + 1, !.dropped_missing = @ + 1]
       ELSE [acc EXCEPT !.total_songs = @ + 1, !.kept_dirs = @ + 1,
                        !.rows = Append(@,
                            [dir_id |-> row[1], dirname |-> row[2],
                             ini_path |-> ini_path, chart_path |-> chart_path,
                             opus_paths |-> json_dumps(opus_paths),
                             uploaded_at |-> strftime(row[6])])]

\* the loop of _collect_valid_songs over the first k rows
RECURSIVE CollectLoop(_, _)
CollectLoop(rows, k) ==
    IF k = 0 THEN NoSongs ELSE CollectStep(CollectLoop(rows, k - 1), rows[k])

\* _collect_valid_songs(result_rows): the rows and the metadata dictionary
_collect_valid_songs(rows) ==
    LET acc == CollectLoop(rows, Len(rows))
    IN [built |-> TRUE, raised |-> "none", rows |-> acc.rows,
        metadata |-> [total_songs |-> acc.total_songs,
                      kept_dirs |-> acc.kept_dirs,
                      dropped_missing |-> acc.dropped_missing]]

\* raw_manifest_parquet has not been materialised and _collect_valid_songs
\* has not been called
NoManifest ==
    [built |-> FALSE, raised |-> "none", rows |-> << >>,
     metadata |-> [total_songs |-> 0, kept_dirs |-> 0, dropped_missing |-> 0]]

\* a dir_collection_job run that has not been launched
IdleRun ==
    [pc |-> "none", entries |-> << >>, files |-> << >>, i |-> 1,
     uploaded_files |-> << >>,
     total_size |-> 0, exc |-> "none", error |-> "none",
     cleanup |-> "pending", notify |-> "pending"]

\* the tick has not ended
NoTick == "none"

\* a sensor instance between two ticks
IdlePoller ==
    [pc |-> "idle", all_items |-> {}, current_dirs |-> {},
     new_dirs_list |-> << >>,
     tick_result |-> NoTick]

(* a new database, both directories under the watch root *)
Init ==
    /\ now = 0
    /\ tables = FALSE
    /\ claims = << >>
    /\ inflight = {}
    /\ metadata = << >>
    /\ objects = {}
    /\ fs = [n \in Names |-> 0]
    /\ call = [c \in Callers |-> IdleCall]
    /\ lastOp = NoOp
    /\ poller = [p \in Pollers |-> IdlePoller]
    /\ emitted = << >>
    /\ run = [n \in Names |-> IdleRun]
    /\ result_rows = << >>
    /\ manifest = NoManifest
    /\ watch_dir = TRUE
    /\ dir_files = [n \in Names |-> DirFiles(n)]

(* ------------------------------ the sensor ----------------------------- *)

\* sorted(new_dirs)
Sorted(S) == SelectSeq(NameOrder, LAMBDA n : n \in S)

\* sorted(new_dirs)[:min(max_dirs_per_run, len(new_dirs))]
\* (a slice with a negative stop leaves that many names off the end)
new_dirs_list(new_dirs, max_dirs_per_run) ==
    LET l == Sorted(new_dirs)
        k == IF max_dirs_per_run < Len(l) THEN max_dirs_per_run ELSE Len(l)
        stop == IF k >= 0 THEN k
                ELSE IF Len(l) + k >= 0 THEN Len(l) + k ELSE 0
    IN SubSeq(l, 1, stop)

\* os.listdir(watch_dir): FileNotFoundError when the watch root is missing,
\* else the names of its entries
listdir ==
    [raised |-> ~watch_dir, items |-> IF watch_dir THEN DOMAIN fs ELSE {}]

\* os.path.isdir(os.path.join(watch_dir, item)), at the moment it is asked
isdir(item) == watch_dir /\ item \in DOMAIN fs

\* a sensor without the try/except around os.listdir
SkipReasonUncaught(listing) ==
    IF listing.raised THEN "FileNotFoundError"
    ELSE IF listing.items = {}
         THEN "No directories found in watched folder"
         ELSE NoTick

\* the early returns at the listing: "except FileNotFoundError: return
\* SkipReason", "if not current_dirs: return SkipReason". listing.items is
\* current_dirs, the entries that were found to be directories. NoTick when
\* the tick goes on
SkipReason(listing) ==
    IF listing.raised THEN "Directory not found"
    ELSE IF listing.items = {}
         THEN "No directories found in watched folder"
         ELSE NoTick

\* the start of a tick: all_items = os.listdir(watch_dir) returns the
\* entries of the watch root
TickList(p) ==
    /\ poller[p].pc = "idle"
    /\ ~listdir.raised
    /\ poller' = [poller EXCEPT ![p] = [IdlePoller EXCEPT
                    !.pc = "isdir", !.all_items = listdir.items]]
    /\ UNCHANGED <<objects, fs, emitted, run>>
    /\ lastOp' = Quiet
    /\ UNCHANGED <<storeVars, call, buildVars, rootVars>>

\* one pass of the set comprehension over all_items: os.path.isdir is asked
\* for one item, which is kept in current_dirs if it still is a directory
TickIsDir(p) ==
    /\ poller[p].pc = "isdir"
    /\ \E item \in poller[p].all_items :
         poller' = [poller EXCEPT
                      ![p].all_items = @ \ {item},
                      ![p].current_dirs =
                          IF isdir(item) THEN @ \cup {item} ELSE @]
    /\ UNCHANGED <<objects, fs, emitted, run>>
    /\ lastOp' = Quiet
    /\ UNCHANGED <<storeVars, call, buildVars, rootVars>>

\* a tick takes one of the early returns at the listing (os.listdir raised,
\* or no item was kept in current_dirs): the store is not called, nothing is
\* yielded
TickSkip(p) ==
    /\ \/ poller[p].pc = "idle" /\ listdir.raised
       \/ poller[p].pc = "isdir" /\ poller[p].all_items = {}
    /\ LET listing == [raised |-> poller[p].pc = "idle",
                       items |-> poller[p].current_dirs]
       IN /\ SkipReason(listing) # NoTick
          /\ poller' = [poller EXCEPT ![p] = [IdlePoller EXCEPT
                          !.pc = "skipped", !.tick_result = SkipReason(listing)]]
    /\ UNCHANGED <<objects, fs, emitted, run>>
    /\ lastOp' = Quiet
    /\ UNCHANGED <<storeVars, call, buildVars, rootVars>>

\* processed_dirs = dir_proc.get_processed_directories(): the call raises
\* and the exception leaves the sensor function, so the tick ends in an
\* error with nothing claimed and nothing yielded. Were a set returned, the
\* tick would take the set difference with its listing, return "No new
\* directories" if it is empty, and else sort and cut to the batch limit for
\* the loop
TickBegin(p, max_dirs_per_run) ==
    /\ poller[p].pc = "isdir"
    /\ poller[p].all_items = {}
    /\ poller[p].current_dirs # {}
    /\ LET processed_dirs == get_processed_directories(claims)
           new_dirs == poller[p].current_dirs \ processed_dirs.dirnames
       IN poller' = [poller EXCEPT ![p] =
            IF processed_dirs.raised # "none"
            THEN [@ EXCEPT !.pc = "raised",
                           !.tick_result = processed_dirs.raised]
            ELSE IF new_dirs = {}
                 THEN [IdlePoller EXCEPT !.pc = "skipped",
                                         !.tick_result = "No new directories"]
                 ELSE [@ EXCEPT !.pc = "loop",
                          !.new_dirs_list = new_dirs_list(new_dirs, max_dirs_per_run)]]
    /\ UNCHANGED <<objects, fs, emitted, run>>
    /\ lastOp' = Quiet
    /\ UNCHANGED <<storeVars, call, buildVars, rootVars>>

\* the tick is over (a SkipReason was returned, or the exception was
\* reported); the sensor waits for its next evaluation
TickEnd(p) ==
    /\ poller[p].pc \in {"skipped", "raised"}
    /\ poller' = [poller EXCEPT ![p] = IdlePoller]
    /\ UNCHANGED <<objects, fs, emitted, run>>
    /\ lastOp' = Quiet
    /\ UNCHANGED <<storeVars, call, buildVars, rootVars>>

(* ------------------------- dir_collection_job -------------------------- *)

\* object_key = f"collected/{dirname}/{filename}"
object_key(dirname, filename) == <<"collected", dirname, filename>>

\* S3Resource.upload_file returns f"{bucket_name}/{object_key}"
upload_file(bucket_name, key) == <<bucket_name>> \o key

\* the entry process_directory appends to uploaded_files for one file
FileRecord(dirname, filename) ==
    [filename |-> filename,
     storage_path |-> upload_file("data-collection", object_key(dirname, filename)),
     file_size |-> FileSize(filename)]

\* the run has entered process_directory and neither returned nor raised
InUpload(r) == r.pc \in {"isfile", "upload", "except"}

\* process_directory has returned or raised
Ended(r) == r.pc \in {"success", "failure"}

\* a job graph in which delete_src_dir does not wait for process_directory's
\* result
CleanupReadyAnyOutcome(r) == Ended(r)

\* dir_collection_job: delete_src_dir(dir_info=dir_info) takes the output of
\* process_directory, so it is run only when process_directory has succeeded
CleanupReady(r) == r.pc = "success"

\* dir_collection_job: send_notification(dir_info=dir_info) takes the output
\* of process_directory (and nothing of delete_src_dir)
NotifyReady(r) == r.pc = "success"

\* os.path.isfile(os.path.join(dirpath, f)), at the moment it is asked
isfile(n, f) == n \in DOMAIN fs /\ f \in dir_files[n]

\* a run of dir_collection_job is launched with the dirname and dirpath of
\* n in its config; process_directory calls os.listdir(dirpath), which
\* returns the entries in any order (a missing directory raises)
StartRun(n) ==
    /\ run[n].pc = "none"
    /\ IF n \in DOMAIN fs
       THEN \E entries \in listdir_files(dir_files[n]) :
               run' = [run EXCEPT
                         ![n].pc = IF entries = << >> THEN "upload" ELSE "isfile",
                         ![n].entries = entries]
       ELSE run' = [run EXCEPT ![n].pc = "except", ![n].exc = "listdir"]
    /\ UNCHANGED <<objects, fs, poller, emitted>>
    /\ lastOp' = Quiet
    /\ UNCHANGED <<storeVars, call, buildVars, rootVars>>

\* one pass of the list comprehension over the entries: os.path.isfile is
\* asked for the next entry, which is kept in files if it still is a file
RunIsFile(n) ==
    /\ run[n].pc = "isfile"
    /\ LET f == Head(run[n].entries)
       IN run' = [run EXCEPT
                    ![n].entries = Tail(@),
                    ![n].files = IF isfile(n, f) THEN Append(@, f) ELSE @,
                    ![n].pc = IF Tail(run[n].entries) = << >>
                              THEN "upload" ELSE "isfile"]
    /\ UNCHANGED <<objects, fs, poller, emitted>>
    /\ lastOp' = Quiet
    /\ UNCHANGED <<storeVars, call, buildVars, rootVars>>

\* one pass of the upload loop: os.path.getsize and s3.upload_file succeed
\* (the file is there), the file's record is appended and total_size grows
UploadFile(n) ==
    /\ run[n].pc = "upload"
    /\ run[n].i <= Len(run[n].files)
    /\ isfile(n, run[n].files[run[n].i])
    /\ LET f == run[n].files[run[n].i]
       IN /\ objects' = objects \cup {object_key(n, f)}
          /\ run' = [run EXCEPT
                        ![n].uploaded_files = Append(@, FileRecord(n, f)),
                        ![n].total_size = @ + FileSize(f),
                        ![n].i = @ + 1]
    /\ UNCHANGED <<fs, poller, emitted>>
    /\ lastOp' = Quiet
    /\ UNCHANGED <<storeVars, call, buildVars, rootVars>>

\* one pass of the upload loop: os.path.getsize raises (the file is gone)
\* or s3.upload_file raises
UploadFileFails(n) ==
    /\ run[n].pc = "upload"
    /\ run[n].i <= Len(run[n].files)
    /\ run' = [run EXCEPT ![n].pc = "except", ![n].exc = "upload"]
    /\ UNCHANGED <<objects, fs, poller, emitted>>
    /\ lastOp' = Quiet
    /\ UNCHANGED <<storeVars, call, buildVars, rootVars>>

\* after the loop: dir_proc.store_directory_metadata(...) raises and the
\* except clause takes over. Were it to return, the run would go on to
\* dir_proc.mark_directory_as_completed(dirname) and, that returning too,
\* return dir_info
StoreMetadata(n) ==
    /\ run[n].pc = "upload"
    /\ run[n].i > Len(run[n].files)
    /\ LET stored == store_directory_metadata(metadata, n,
                        Len(run[n].uploaded_files), run[n].total_size,
                        run[n].uploaded_files, now)
           completed == mark_directory_as_completed(claims, n, now)
       IN IF stored.raised # "none"
          THEN /\ run' = [run EXCEPT ![n].pc = "except", ![n].exc = "store"]
               /\ UNCHANGED <<metadata, claims>>
          ELSE IF completed.raised # "none"
          THEN /\ metadata' = stored.rows
               /\ run' = [run EXCEPT ![n].pc = "except", ![n].exc = "complete"]
               /\ UNCHANGED claims
          ELSE /\ metadata' = stored.rows
               /\ claims' = completed.tbl
               /\ run' = [run EXCEPT ![n].pc = "success"]
    /\ UNCHANGED <<now, tables, inflight>>
    /\ UNCHANGED <<objects, fs, poller, emitted>>
    /\ lastOp' = Quiet
    /\ UNCHANGED <<call, buildVars, rootVars>>

\* "except Exception": dir_proc.mark_directory_as_failed(dirname) raises
\* inside the handler, so the op fails with that exception and "raise
\* dg.Failure" is not reached. Were the call to return, the row would be
\* failed and the op would fail with dg.Failure
HandleException(n) ==
    /\ run[n].pc = "except"
    /\ LET res == mark_directory_as_failed(claims, n, now)
       IN /\ claims' = res.tbl
          /\ run' = [run EXCEPT
                        ![n].pc = "failure",
                        ![n].error = IF res.raised # "none" THEN res.raised
                                     ELSE "Failure"]
    /\ UNCHANGED <<now, tables, inflight, metadata>>
    /\ UNCHANGED <<objects, fs, poller, emitted>>
    /\ lastOp' = Quiet
    /\ UNCHANGED <<call, buildVars, rootVars>>

\* the run is cancelled or its process dies inside process_directory:
\* nothing more is written for this run
Crash(n) ==
    /\ InUpload(run[n])
    /\ run' = [run EXCEPT ![n] = [IdleRun EXCEPT !.pc = "crashed"]]
    /\ UNCHANGED <<objects, fs, poller, emitted>>
    /\ lastOp' = Quiet
    /\ UNCHANGED <<storeVars, call, buildVars, rootVars>>

\* the job comes to delete_src_dir once process_directory has ended: the op
\* is executed only when its input dir_info is there; shutil.rmtree(dirpath)
\* then removes the directory, or raises, having removed any part of the
\* directory's contents, and the op logs and re-raises
DeleteSrcDir(n) ==
    /\ Ended(run[n])
    /\ run[n].cleanup = "pending"
    /\ IF CleanupReady(run[n])
       THEN \E rmtree_ok \in BOOLEAN :
               IF rmtree_ok
               THEN /\ fs' = [d \in DOMAIN fs \ {n} |-> fs[d]]
                    /\ run' = [run EXCEPT ![n].cleanup = "done"]
                    /\ UNCHANGED dir_files
               ELSE /\ run' = [run EXCEPT ![n].cleanup = "failed"]
                    /\ \E left \in SUBSET dir_files[n] :
                          dir_files' = [dir_files EXCEPT ![n] = left]
                    /\ UNCHANGED fs
       ELSE /\ run' = [run EXCEPT ![n].cleanup = "not_executed"]
            /\ UNCHANGED <<fs, dir_files>>
    /\ UNCHANGED <<objects, poller, emitted, watch_dir>>
    /\ lastOp' = Quiet
    /\ UNCHANGED <<storeVars, call, buildVars>>

\* the job comes to send_notification once process_directory has ended: the
\* op is executed only when its input dir_info is there, and logs the
\* summary it carries
SendNotification(n) ==
    /\ Ended(run[n])
    /\ run[n].notify = "pending"
    /\ run' = [run EXCEPT ![n].notify =
                  IF NotifyReady(run[n]) THEN "done" ELSE "not_executed"]
    /\ UNCHANGED <<objects, fs, poller, emitted>>
    /\ lastOp' = Quiet
    /\ UNCHANGED <<storeVars, call, buildVars, rootVars>>

\* a directory appears (again) under the watch root
CreateDir(n) ==
    /\ watch_dir
    /\ n \notin DOMAIN fs
    /\ fs' = [d \in DOMAIN fs \cup {n} |-> IF d = n THEN now ELSE fs[d]]
    /\ UNCHANGED <<objects, poller, emitted, run>>
    /\ lastOp' = Quiet
    /\ UNCHANGED <<storeVars, call, buildVars, rootVars>>

\* a directory under the watch root disappears (whoever put it there takes
\* it away)
RemoveDir(n) ==
    /\ n \in DOMAIN fs
    /\ fs' = [d \in DOMAIN fs \ {n} |-> fs[d]]
    /\ UNCHANGED <<objects, poller, emitted, run>>
    /\ lastOp' = Quiet
    /\ UNCHANGED <<storeVars, call, buildVars, rootVars>>

\* the watch root disappears (the volume is unmounted), and its
\* subdirectories with it
RemoveWatchDir ==
    /\ watch_dir
    /\ watch_dir' = FALSE
    /\ fs' = << >>
    /\ UNCHANGED dir_files
    /\ UNCHANGED <<objects, poller, emitted, run>>
    /\ lastOp' = Quiet
    /\ UNCHANGED <<storeVars, call, buildVars>>

\* the watch root is there again, empty
CreateWatchDir ==
    /\ ~watch_dir
    /\ watch_dir' = TRUE
    /\ UNCHANGED dir_files
    /\ lastOp' = Quiet
    /\ UNCHANGED <<storeVars, call, jobVars, buildVars>>

(* --------------------- from the store to the manifest ------------------ *)

\* the characters of the names process_directory handles
Text(tok) ==
    CASE tok = "songA" ->
            <<"s", "o", "n", "g", "A">>
      [] tok = "songB" ->
            <<"s", "o", "n", "g", "B">>
      [] tok = "a.opus" ->
            <<"a", ".", "o", "p", "u", "s">>
      [] tok = "b.chart" ->
            <<"b", ".", "c", "h", "a", "r", "t">>
      [] tok = "c.ini" ->
            <<"c", ".", "i", "n", "i">>
      [] tok = "data-collection" ->
            <<"d", "a", "t", "a", "-", "c", "o", "l", "l", "e", "c", "t", "i", "o", "n">>
      [] tok = "collected" ->
            <<"c", "o", "l", "l", "e", "c", "t", "e", "d">>

\* the str of a storage path: f"{bucket_name}/{object_key}" with
\* object_key = f"collected/{dirname}/{filename}"
PathText(storage_path) ==
    join(<<"/">>, [k \in 1..Len(storage_path) |-> Text(storage_path[k])])

\* one entry of files_json as the query returns it
FileJson(f) ==
    [filename |-> Text(f.filename), storage_path |-> PathText(f.storage_path),
     file_size |-> f.file_size]

\* the rows the query of raw_manifest_parquet selects: SELECT id, dirname,
\* file_count, total_size, files_json, uploaded_at FROM directory_metadata
query(rows) ==
    [k \in 1..Len(rows) |->
        <<rows[k].id, rows[k].dirname, rows[k].file_count, rows[k].total_size,
          [j \in 1..Len(rows[k].files_json) |-> FileJson(rows[k].files_json[j])],
          rows[k].uploaded_at>>]

\* pg.fetchall(query): PostgresResource defines get_connection and no
\* fetchall, so the attribute lookup raises AttributeError
fetchall(rows) == [raised |-> "AttributeError", rows |-> << >>]

\* manifest_key = f"manifests/manifest_{run_id}.parquet"
ManifestKey == <<"manifests", "manifest_run1.parquet">>

\* raw_manifest_parquet: fetch every row of directory_metadata (an exception
\* ends the materialisation there), collect the valid songs, put the parquet
\* file into the bucket and report the counts
BuildManifest ==
    /\ LET result == fetchall(query(metadata))
       IN IF result.raised # "none"
          THEN /\ manifest' = [manifest EXCEPT !.raised = result.raised]
               /\ UNCHANGED <<result_rows, objects>>
          ELSE /\ result_rows' = result.rows
               /\ manifest' = _collect_valid_songs(result.rows)
               /\ objects' = objects \cup {ManifestKey}
    /\ UNCHANGED <<fs, poller, emitted, run>>
    /\ lastOp' = Quiet
    /\ UNCHANGED <<storeVars, call, rootVars>>

\* _collect_valid_songs(result_rows) called on rows the caller supplies
CollectValidSongs ==
    /\ ~manifest.built
    /\ manifest' = _collect_valid_songs(result_rows)
    /\ UNCHANGED result_rows
    /\ lastOp' = Quiet
    /\ UNCHANGED <<storeVars, jobVars, call, rootVars>>

(* the rows _collect_valid_songs is tried on *)

\* the address prefix the local deployment's upload_file puts in front of
\* "{bucket_name}/{object_key}"
LocalPrefix ==
    PrefixScheme \o <<"1", "3", "8", "b", "4", "b", "7", "5", "-", "6", "8", "6", "c", "-", "4", "7", "9", "e", "-">>
                 \o <<"8", "e", "5", "c", "-", "3", "c", "f", "c", "2", "f", "1", "e", "a", "e", "4", "9">>

\* the storage path upload_file returns for a file of songA
PathOf(filename) ==
    PathText(<<"data-collection", "collected", "songA">>) \o <<"/">> \o filename

\* file records a directory_metadata row may hold: an audio file stored with
\* the address prefix, two chart files of one size whose names differ in
\* case only, an info file whose path has whitespace before the prefix, an
\* audio file whose path carries the prefix twice, a file that is not
\* required, a chart file of the same size with a greater name, an info file
\* that is larger and has a smaller name, and an audio file whose name
\* differs from the first one's in case only
FilePool ==
    {[filename |-> <<"a", ".", "o", "p", "u", "s">>, file_size |-> 3,
      storage_path |-> LocalPrefix \o PathOf(<<"a", ".", "o", "p", "u", "s">>)],
     [filename |-> <<"b", ".", "c", "h", "a", "r", "t">>, file_size |-> 2,
      storage_path |-> PathOf(<<"b", ".", "c", "h", "a", "r", "t">>)],
     [filename |-> <<"B", ".", "c", "h", "a", "r", "t">>, file_size |-> 2,
      storage_path |-> PathOf(<<"B", ".", "c", "h", "a", "r", "t">>)],
     [filename |-> <<"c", ".", "i", "n", "i">>, file_size |-> 1,
      storage_path |-> <<" ">> \o LocalPrefix \o PathOf(<<"c", ".", "i", "n", "i">>)],
     [filename |-> <<"Z", ".", "O", "P", "U", "S">>, file_size |-> 3,
      storage_path |-> LocalPrefix \o LocalPrefix \o PathOf(<<"Z", ".", "O", "P", "U", "S">>)],
     [filename |-> <<"d", ".", "t", "x", "t">>, file_size |-> 1,
      storage_path |-> PathOf(<<"d", ".", "t", "x", "t">>)],
     [filename |-> <<"n", ".", "c", "h", "a", "r", "t">>, file_size |-> 2,
      storage_path |-> PathOf(<<"n", ".", "c", "h", "a", "r", "t">>)],
     [filename |-> <<"a", ".", "i", "n", "i">>, file_size |-> 4,
      storage_path |-> PathOf(<<"a", ".", "i", "n", "i">>)],
     [filename |-> <<"A", ".", "o", "p", "u", "s">>, file_size |-> 1,
      storage_path |-> PathOf(<<"A", ".", "o", "p", "u", "s">>)]}

\* the file lists of at most MaxFiles distinct records, in every order
FileLists ==
    {l \in UNION {[1..k -> FilePool] : k \in 0..MaxFiles} :
        \A i, j \in 1..Len(l) : l[i] = l[j] => i = j}

\* total_size after the upload loop over files
RECURSIVE total_size(_)
total_size(files) ==
    IF files = << >> THEN 0
    ELSE FileSize(Head(files)) + total_size(Tail(files))

\* the row PostgresResource.store_directory_metadata inserts for directory n
\* when it is given the file records process_directory builds from the
\* listing files, as the query selects it
StoredRow(n, files) ==
    query(pg_store_directory_metadata(<< >>, n, Len(files), total_size(files),
                [j \in 1..Len(files) |-> FileRecord(n, files[j])], 0))[1]

\* the rows that may be stored so for directory n, one per order of listing
StoredRowsOf(n) == {StoredRow(n, files) : files \in listdir_files(DirFiles(n))}

\* rows 2.. of the input: rows stored so, at most one
\* for a directory
StoredRows ==
    {rest \in UNION {[1..k -> UNION {StoredRowsOf(n) : n \in Names}] :
                        k \in 0..(MaxRows - 1)} :
        \A i, j \in 1..Len(rest) : rest[i][2] = rest[j][2] => i = j}

\* the rows with their SERIAL ids
Numbered(rows) == [k \in 1..Len(rows) |-> [rows[k] EXCEPT ![1] = k]]

\* _collect_valid_songs is given one row with any file list of FileLists,
\* followed by up to MaxRows - 1 stored rows
InitManifest ==
    /\ now = 0
    /\ tables = FALSE
    /\ claims = << >>
    /\ inflight = {}
    /\ metadata = << >>
    /\ objects = {}
    /\ fs = [n \in Names |-> 0]
    /\ call = [c \in Callers |-> IdleCall]
    /\ lastOp = NoOp
    /\ poller = [p \in Pollers |-> IdlePoller]
    /\ emitted = << >>
    /\ run = [n \in Names |-> IdleRun]
    /\ manifest = NoManifest
    /\ watch_dir = TRUE
    /\ dir_files = [n \in Names |-> DirFiles(n)]
    /\ \E files \in FileLists, rest \in StoredRows :
         result_rows = Numbered(<<<<1, "songA", Len(files), 0, files, 0>>>> \o rest)

NextManifest == CollectValidSongs

SpecManifest == InitManifest /\ [][NextManifest]_vars

(* directory_processing_state under direct, concurrent callers of both
   resources, starting from a new database: claims by NumCallers callers,
   statement by statement, beside the calls one further caller makes of
   complete, fail, the sweep and the two reads of the table *)
NextStore ==
    \/ \E c \in Callers, n \in Names : PgClaimBegin(c, n, RunIdOf(c))
    \/ \E c \in Callers : PgClaimRaise(c)
    \/ \E c \in Callers : PgClaimIndex(c)
    \/ \E c \in Callers : PgClaimInsert(c)
    \/ \E c \in Callers : PgClaimDeadlock(c)
    \/ \E c \in Callers : PgClaimCommit(c)
    \/ \E k \in StateCalls : PgCallBegin(k)
    \/ PgCallRaise
    \/ PgCallIndex
    \/ PgCallDeadlock
    \/ \E t \in Timeouts : PgCallSweep(t)
    \/ PgCallKnown
    \/ \E t \in Timeouts : PgCallStuck(t)
    \/ \E k \in UpdatingCalls : PgCallWait(k)
    \/ \E n \in Names : PgCallComplete(n)
    \/ \E n \in Names : PgCallFail(n)
    \/ \E c \in Callers, n \in Names : CallClaim(c, n, RunIdOf(c))
    \/ \E n \in Names : CallComplete(n)
    \/ \E n \in Names : CallFail(n)
    \/ \E t \in Timeouts : CallSweep(t)
    \/ CallKnown
    \/ \E t \in Timeouts : CallStuck(t)
    \/ Tick

SpecStore == Init /\ [][NextStore]_vars

(* both directories stand under the watch root and each has its row in
   processing, inserted by PostgresResource.mark_directory_as_processing
   with run_id None *)
InitClaimed ==
    /\ now = 0
    /\ tables = TRUE
    /\ claims = [n \in Names |-> NewClaimRecord(0, "None")]
    /\ inflight = {}
    /\ metadata = << >>
    /\ objects = {}
    /\ fs = [n \in Names |-> 0]
    /\ call = [c \in Callers |-> IdleCall]
    /\ lastOp = NoOp
    /\ poller = [p \in Pollers |-> IdlePoller]
    /\ emitted = << >>
    /\ run = [n \in Names |-> IdleRun]
    /\ result_rows = << >>
    /\ manifest = NoManifest
    /\ watch_dir = TRUE
    /\ dir_files = [n \in Names |-> DirFiles(n)]

(* the dir_collection_job runs of the claimed directories, with their
   failures *)
Next ==
    \/ \E n \in Names : StartRun(n)
    \/ \E n \in Names : RunIsFile(n)
    \/ \E n \in Names : UploadFile(n)
    \/ \E n \in Names : UploadFileFails(n)
    \/ \E n \in Names : StoreMetadata(n)
    \/ \E n \in Names : HandleException(n)
    \/ \E n \in Names : Crash(n)
    \/ \E n \in Names : DeleteSrcDir(n)
    \/ \E n \in Names : SendNotification(n)

Spec == InitClaimed /\ [][Next]_vars

(* a watch root that holds the first directory only, its row in processing *)
InitSingle ==
    /\ now = 0
    /\ tables = TRUE
    /\ claims = [n \in {NameOrder[1]} |-> NewClaimRecord(0, "None")]
    /\ inflight = {}
    /\ metadata = << >>
    /\ objects = {}
    /\ fs = [n \in {NameOrder[1]} |-> 0]
    /\ call = [c \in Callers |-> IdleCall]
    /\ lastOp = NoOp
    /\ poller = [p \in Pollers |-> IdlePoller]
    /\ emitted = << >>
    /\ run = [n \in Names |-> IdleRun]
    /\ result_rows = << >>
    /\ manifest = NoManifest
    /\ watch_dir = TRUE
    /\ dir_files = [n \in Names |-> DirFiles(n)]

(* the job runs, the sweep as the pipeline's resource offers it, a
   directory taken away from under the watch root, and the clock *)
NextTimed ==
    \/ \E n \in Names : StartRun(n)
    \/ \E n \in Names : RunIsFile(n)
    \/ \E n \in Names : UploadFile(n)
    \/ \E n \in Names : UploadFileFails(n)
    \/ \E n \in Names : StoreMetadata(n)
    \/ \E n \in Names : HandleException(n)
    \/ \E n \in Names : Crash(n)
    \/ \E n \in Names : DeleteSrcDir(n)
    \/ \E n \in Names : SendNotification(n)
    \/ \E t \in Timeouts : CallSweep(t)
    \/ \E n \in Names : RemoveDir(n)
    \/ Tick

SpecTimed == InitSingle /\ [][NextTimed]_vars

(* one sensor instance *)
JobPollers == {p \in Pollers : \A q \in Pollers : p <= q}

(* one direct caller *)
BuildCallers == {c \in Callers : \A d \in Callers : c <= d}

(* an hour on: songA has been through the store by PostgresResource's
   methods, its row is completed and its directory_metadata row is stored;
   the row of songB is in processing since the hour before *)
InitStored ==
    /\ now = 1
    /\ tables = TRUE
    /\ claims = [n \in Names |->
                    IF n = NameOrder[1]
                    THEN [NewClaimRecord(0, "None") EXCEPT
                             !.status = "completed", !.completed_at = 1]
                    ELSE NewClaimRecord(0, "None")]
    /\ inflight = {}
    /\ metadata = pg_store_directory_metadata(<< >>, NameOrder[1],
                     Len(StoreArgs(NameOrder[1])), StoreTotal(NameOrder[1]),
                     StoreArgs(NameOrder[1]), 1)
    /\ objects = {object_key(NameOrder[1], f) : f \in DirFiles(NameOrder[1])}
    /\ fs = [n \in Names |-> 0]
    /\ call = [c \in Callers |-> IdleCall]
    /\ lastOp = NoOp
    /\ poller = [p \in Pollers |-> IdlePoller]
    /\ emitted = << >>
    /\ run = [n \in Names |-> IdleRun]
    /\ result_rows = << >>
    /\ manifest = NoManifest
    /\ watch_dir = TRUE
    /\ dir_files = [n \in Names |-> DirFiles(n)]

(* the directory whose run is still to come in InitStored *)
BuildRuns == Names \ {NameOrder[1]}

(* the operations that write or read the two tables: process_directory of
   that directory with its failures, the manifest asset materialised at any
   moment, a claim through PostgresResource statement by statement, and
   beside it the calls one further caller makes of every other method of
   PostgresResource and of the sweep, the store and the reads of
   DirectoryProcessingResource *)
NextBuild ==
    \/ \E n \in BuildRuns : StartRun(n)
    \/ \E n \in BuildRuns : RunIsFile(n)
    \/ \E n \in BuildRuns : UploadFile(n)
    \/ \E n \in BuildRuns : UploadFileFails(n)
    \/ \E n \in BuildRuns : StoreMetadata(n)
    \/ \E n \in BuildRuns : HandleException(n)
    \/ \E c \in BuildCallers, n \in Names : PgClaimBegin(c, n, RunIdOf(c))
    \/ \E c \in BuildCallers : PgClaimRaise(c)
    \/ \E c \in BuildCallers : PgClaimIndex(c)
    \/ \E c \in BuildCallers : PgClaimInsert(c)
    \/ \E c \in BuildCallers : PgClaimDeadlock(c)
    \/ \E c \in BuildCallers : PgClaimCommit(c)
    \/ \E k \in StateCalls \cup MetadataCalls : PgCallBegin(k)
    \/ PgCallRaise
    \/ PgCallIndex
    \/ PgCallDeadlock
    \/ \E t \in Timeouts : PgCallSweep(t)
    \/ PgCallKnown
    \/ \E t \in Timeouts : PgCallStuck(t)
    \/ PgCallStats
    \/ \E n \in Names : PgCallStore(n)
    \/ \E d \in Names \cup Falsy : PgCallGetMetadata(d)
    \/ \E k \in UpdatingCalls : PgCallWait(k)
    \/ \E n \in Names : PgCallComplete(n)
    \/ \E n \in Names : PgCallFail(n)
    \/ \E t \in Timeouts : CallSweep(t)
    \/ CallStats
    \/ \E n \in Names : CallStore(n)
    \/ \E d \in Names \cup Falsy : CallGetMetadata(d)
    \/ BuildManifest

(* from a new database, or from the database an hour on *)
InitBuild == Init \/ InitStored

SpecBuild == InitBuild /\ [][NextBuild]_vars

(* the run without failures from outside: the sensor, a run of the job for
   every directory, and the manifest asset *)
NextE2E ==
    \/ \E p \in JobPollers : TickList(p)
    \/ \E p \in JobPollers : TickIsDir(p)
    \/ \E p \in JobPollers, b \in 1..MaxBatch : TickBegin(p, b)
    \/ \E p \in JobPollers : TickEnd(p)
    \/ \E n \in Names : StartRun(n)
    \/ \E n \in Names : RunIsFile(n)
    \/ \E n \in Names : UploadFile(n)
    \/ \E n \in Names : StoreMetadata(n)
    \/ \E n \in Names : HandleException(n)
    \/ \E n \in Names : DeleteSrcDir(n)
    \/ \E n \in Names : SendNotification(n)
    \/ BuildManifest

SpecE2E == Init /\ [][NextE2E]_vars

(* the same run over claimed directories of which songB holds no regular
   file *)
InitEmpty ==
    /\ now = 0
    /\ tables = TRUE
    /\ claims = [n \in Names |-> NewClaimRecord(0, "None")]
    /\ inflight = {}
    /\ metadata = << >>
    /\ objects = {}
    /\ fs = [n \in Names |-> 0]
    /\ call = [c \in Callers |-> IdleCall]
    /\ lastOp = NoOp
    /\ poller = [p \in Pollers |-> IdlePoller]
    /\ emitted = << >>
    /\ run = [n \in Names |-> IdleRun]
    /\ result_rows = << >>
    /\ manifest = NoManifest
    /\ watch_dir = TRUE
    /\ dir_files = [n \in Names |-> IF n = "songB" THEN {} ELSE DirFiles(n)]

SpecEmpty == InitEmpty /\ [][NextE2E]_vars

(* the watch root with any of its directories already claimed (rows in
   processing, inserted by PostgresResource.mark_directory_as_processing) *)
InitSensor ==
    /\ now = 0
    /\ \E known \in SUBSET Names :
         /\ tables = (known # {})
         /\ claims = [n \in known |-> NewClaimRecord(0, "None")]
    /\ inflight = {}
    /\ metadata = << >>
    /\ objects = {}
    /\ fs = [n \in Names |-> 0]
    /\ call = [c \in Callers |-> IdleCall]
    /\ lastOp = NoOp
    /\ poller = [p \in Pollers |-> IdlePoller]
    /\ emitted = << >>
    /\ run = [n \in Names |-> IdleRun]
    /\ result_rows = << >>
    /\ manifest = NoManifest
    /\ watch_dir = TRUE
    /\ dir_files = [n \in Names |-> DirFiles(n)]

(* overlapping ticks of NumPollers sensor instances, the early returns
   included, over a watch root whose directories come and go as the hours
   pass and that can itself disappear and come back *)
NextSensor ==
    \/ \E p \in Pollers : TickList(p)
    \/ \E p \in Pollers : TickIsDir(p)
    \/ \E p \in Pollers : TickSkip(p)
    \/ \E p \in Pollers, b \in 1..MaxBatch : TickBegin(p, b)
    \/ \E p \in Pollers : TickEnd(p)
    \/ \E n \in Names : CreateDir(n)
    \/ \E n \in Names : RemoveDir(n)
    \/ RemoveWatchDir
    \/ CreateWatchDir
    \/ Tick

SpecSensor == InitSensor /\ [][NextSensor]_vars

(* ------------------------------ C1 ------------------------------------- *)

\* the callers to whom mark_directory_as_processing(n) has returned r
CallersOf(n, r) == {c \in Callers : call[c].name = n /\ call[c].ret = r}

\* C1: among any number of concurrent callers of claim(n) on a name with no
\* record, never two get True, and once every caller has called exactly one
\* holds True and every other answer is False.
C1_ExactlyOneClaimWins ==
    \A n \in Names :
        /\ Cardinality(CallersOf(n, "true")) <= 1
        /\ CallersOf(n, "false") # {} => Cardinality(CallersOf(n, "true")) = 1
        /\ (\A c \in Callers : call[c].name = n /\ call[c].pc = "returned")
              => /\ Cardinality(CallersOf(n, "true")) = 1
                 /\ Cardinality(CallersOf(n, "false")) = NumCallers - 1

(* ------------------------------ C3 ------------------------------------- *)

\* the claim(n) of caller c comes to its INSERT or is ended in this step,
\* through either resource
ClaimStep(c, n) ==
    \/ /\ call[c].name = n
       /\ PgClaimInsert(c) \/ PgClaimDeadlock(c) \/ PgClaimRaise(c)
    \/ CallClaim(c, n, RunIdOf(c))

\* C3: once claim(n) has returned True the name stays known: no complete,
\* fail or sweep call removes its row, whatever the row's status, a call of
\* knownNames returns the names that have a row, and every claim(n) made
\* while the row exists is answered False.
C3_OnceClaimedAlwaysKnown ==
    /\ [](\A c \in Callers :
            call[c].ret = "true" => call[c].name \in DOMAIN claims)
    /\ [][CallKnown =>
            /\ lastOp'.raised = "none"
            /\ lastOp'.ret = Cardinality(DOMAIN claims)]_vars
    /\ [][\A n \in Names :
            n \in DOMAIN claims =>
              /\ n \in DOMAIN claims'
              /\ \A c \in Callers :
                   (call[c].pc # "returned" /\ call'[c].pc = "returned"
                      /\ call'[c].name = n) => call'[c].ret = "false"]_vars

(* ------------------------------ C5 ------------------------------------- *)

\* sweep(timeout) runs its UPDATE and returns in this step, through either
\* resource
SweepStep(timeout) == PgCallSweep(timeout) \/ CallSweep(timeout)

\* the call that makes this step was made just after a sweep with a timeout
\* of at most t had returned
AfterSweep(t) ==
    IF Waiting THEN lastOp.after_sweep # NULL /\ lastOp.after_sweep <= t
    ELSE lastOp.op \in SweepOps /\ lastOp.timeout <= t

\* C5: sweep(0) on a store holding one record claimed earlier and still
\* processing fails it and returns 1; a sweep issued immediately after a
\* sweep (with a timeout at least as long) returns 0 and leaves the store
\* exactly as the first sweep left it.
C5_SweepIdempotent ==
    [][/\ (/\ SweepStep(0)
           /\ \E n \in Names :
                /\ DOMAIN claims = {n}
                /\ claims[n].status = "processing"
                /\ claims[n].started_at < now)
          => (/\ lastOp'.raised = "none"
              /\ lastOp'.ret = 1
              /\ \A n \in DOMAIN claims : claims'[n].status = "failed")
       /\ \A t \in Timeouts :
            (/\ AfterSweep(t)
             /\ SweepStep(t))
            => (/\ lastOp'.raised = "none"
                /\ lastOp'.ret = 0
                /\ claims' = claims)]_vars

(* ------------------------------ C6 ------------------------------------- *)

\* C6: sweep(timeout) changes exactly the records stuck(timeout) returns at
\* that moment (processing, started_at strictly older than now - timeout):
\* stuck returns them, sweep sets them failed with completed_at and returns
\* their number, and leaves every other record as it was.
C6_SweepFrame ==
    [][\A t \in Timeouts :
         LET S == {d \in DOMAIN claims :
                      /\ claims[d].status = "processing"
                      /\ claims[d].started_at < now - t}
         IN /\ CallStuck(t) =>
                 /\ lastOp'.raised = "none"
                 /\ lastOp'.ret = Cardinality(S)
            /\ S = pg_get_stuck_directories(claims, now, t)
            /\ SweepStep(t) =>
                 /\ lastOp'.raised = "none"
                 /\ lastOp'.ret = Cardinality(S)
                 /\ DOMAIN claims' = DOMAIN claims
                 /\ \A d \in DOMAIN claims :
                      IF d \in S
                      THEN claims'[d] = [status |-> "failed",
                                         started_at |-> claims[d].started_at,
                                         completed_at |-> now,
                                         run_id |-> claims[d].run_id]
                      ELSE claims'[d] = claims[d]]_vars

(* ------------------------------ C4 ------------------------------------- *)

\* the clock advances and cleanup_stuck_directories is invoked again and
\* again, with every timeout
LiveSpec ==
    /\ SpecTimed
    /\ WF_vars(Tick)
    /\ \A t \in Timeouts : WF_vars(CallSweep(t))

\* dirname n has a row in status st
HasStatus(n, st) == n \in DOMAIN claims /\ claims[n].status = st

\* C4: a run that is cancelled or crashes before it has called complete or
\* fail leaves its record in processing until a sweep takes it, and with the
\* sweep invoked repeatedly after the timeout the record ends up failed; no
\* record stays in processing forever.
C4_CrashRecovery ==
    /\ [][\A n \in Names :
            (run[n].pc = "crashed" /\ HasStatus(n, "processing")
               /\ claims'[n].status # "processing")
            => (claims'[n].status = "failed" /\ \E t \in Timeouts : CallSweep(t))]_vars
    /\ \A n \in Names :
         (run[n].pc = "crashed" /\ HasStatus(n, "processing"))
            ~> HasStatus(n, "failed")
    /\ \A n \in Names :
         HasStatus(n, "processing") ~> ~HasStatus(n, "processing")

(* ------------------------------ C7 ------------------------------------- *)

\* the object keys of dirname n present in the bucket
ObjectsOf(n) == {o \in objects : o[2] = n}

\* the keys of the first k files of the run of n
KeysUpTo(n, k) == {object_key(n, run[n].files[j]) : j \in 1..k}

\* the keys of all the files of directory n
AllKeys(n) == {object_key(n, f) : f \in dir_files[n]}

\* the rows of directory_metadata whose dirname is n, in insertion order
RowsOf(n) == SelectSeq(metadata, LAMBDA r : r.dirname = n)

\* C7: when the upload of the k-th file fails, no later file is uploaded,
\* the claim is failed, no metadata row is stored for the directory, the
\* k-1 files already uploaded stay in the bucket, and process_directory ends
\* with a failure.
C7_PartialUploadFailure ==
    \A n \in Names :
        run[n].exc = "upload" =>
            /\ run[n].pc \in {"except", "failure"}
            /\ ObjectsOf(n) = KeysUpTo(n, run[n].i - 1)
            /\ RowsOf(n) = << >>
            /\ run[n].pc = "failure" => HasStatus(n, "failed")
            /\ run[n].cleanup \in {"pending", "not_executed"}

(* ------------------------------ C8 ------------------------------------- *)

\* process_directory has ended for n after the listing and every upload
\* went through
AllUploaded(n) ==
    /\ Ended(run[n])
    /\ run[n].exc \notin {"listdir", "upload"}
    /\ run[n].i > Len(run[n].files)

\* C8: on the success path every file is uploaded, then the metadata row is
\* stored with the aggregated file records, then the claim is completed: a
\* stored row means every file is in the bucket, a completed claim means the
\* row is stored, and a process_directory whose uploads all went through
\* ends in success with the claim completed and exactly one row for the
\* name.
C8_UploadStoreComplete ==
    \A n \in Names :
        LET rows == RowsOf(n)
        IN /\ rows # << >> =>
                /\ ObjectsOf(n) = AllKeys(n)
                /\ {rows[1].files_json[j] : j \in 1..Len(rows[1].files_json)}
                      = {FileRecord(n, f) : f \in dir_files[n]}
           /\ HasStatus(n, "completed") => Len(rows) = 1
           /\ AllUploaded(n) =>
                /\ run[n].pc = "success"
                /\ HasStatus(n, "completed")
                /\ Len(rows) = 1
                /\ rows[1].files_json = run[n].uploaded_files

(* ------------------------------ C9 ------------------------------------- *)

\* C9: delete_src_dir runs only after process_directory succeeded: whenever
\* it has run, every file of the directory is uploaded, its metadata row is
\* stored and its claim is completed; after a failed or crashed
\* process_directory delete_src_dir is not executed and the source directory
\* stays where it is.
C9_CleanupOnlyAfterSuccess ==
    \A n \in Names :
        /\ run[n].cleanup \in {"done", "failed"} =>
              /\ run[n].pc = "success"
              /\ ObjectsOf(n) = AllKeys(n)
              /\ Len(RowsOf(n)) = 1
              /\ HasStatus(n, "completed")
        /\ run[n].pc \in {"except", "failure", "crashed"} =>
              /\ run[n].cleanup \in {"pending", "not_executed"}
              /\ n \in DOMAIN fs

\* process_directory has failed for songA after its three uploads; the job
\* came to delete_src_dir, did not execute it, and songA still stands under
\* the watch root
C9_Witness ==
    /\ run["songA"].pc = "failure"
    /\ Cardinality(ObjectsOf("songA")) = 3
    /\ run["songA"].cleanup = "not_executed"
    /\ "songA" \in DOMAIN fs

(* ------------------------------ C12 ------------------------------------ *)

\* complete(n) runs in this step, through either resource
CompleteStep(n) == PgCallComplete(n) \/ CallComplete(n)

\* C12: mark_directory_as_completed(n) for a name that has no row reports an
\* error to its caller instead of returning normally, and creates no row.
C12_CompleteUnknownIsError ==
    [][\A n \in Names :
         (CompleteStep(n) /\ n \notin DOMAIN claims) =>
            (lastOp'.raised # "none" /\ claims' = claims)]_vars

(* ------------------------------ C13 ------------------------------------ *)

\* C13: mark_directory_as_processing(n, run_id) on a name that has a row, in
\* whatever status, returns False as an ordinary value (the uniqueness
\* violation does not reach the caller as an error, nor does any other) and
\* leaves the row's status, started_at, completed_at and run_id as they
\* were.
C13_ClaimOfKnownNameReturnsFalse ==
    [][\A c \in Callers, n \in Names :
         (ClaimStep(c, n) /\ n \in DOMAIN claims) =>
            /\ call'[c].pc = "returned"
            /\ call'[c].ret = "false"
            /\ claims' = claims
            /\ inflight' = inflight]_vars

(* ------------------------------ C14 ------------------------------------ *)

\* what the builder selects from one file list
Selection(files) ==
    [chart_path |-> _pick_single_storage_path(_filter_required(files), ExtChart),
     ini_path |-> _pick_single_storage_path(_filter_required(files), ExtIni),
     opus_paths |-> _sorted_opus_paths(_filter_required(files))]

\* the file list in the order p
Permuted(files, p) == [k \in 1..Len(files) |-> files[p[k]]]

\* C14: the selection does not depend on the order of the file list: every
\* permutation of a row's files_json gives the same chart path, the same
\* info path and the same ordered audio paths, also when candidates have the
\* same size and names that differ in letter case only.
C14_SelectionIgnoresInputOrder ==
    \A k \in 1..Len(result_rows) :
        LET files == result_rows[k][5]
        IN \A p \in Permutations(1..Len(files)) :
              Selection(Permuted(files, p)) = Selection(files)

(* ------------------------------ C15 ------------------------------------ *)

\* the file list has a file whose lowercased name ends with ext
HasExt(files, ext) ==
    \E j \in 1..Len(files) : endswith(lower(strip(files[j].filename)), ext)

\* the ids of the rows the manifest kept
KeptIds == {manifest.rows[j].dir_id : j \in 1..Len(manifest.rows)}

\* C15: _collect_valid_songs returns normally for every input, and keeps a
\* row exactly when its file list has an .opus, a .chart and an .ini file:
\* the row of [a.opus, b.chart, c.ini] is kept, the row of [a.opus, c.ini]
\* is dropped.
C15_KeptIffRequiredFiles ==
    manifest.built =>
        \A k \in 1..Len(result_rows) :
            LET files == result_rows[k][5]
            IN /\ k \in KeptIds <=>
                    (/\ HasExt(files, ExtOpus)
                     /\ HasExt(files, ExtChart)
                     /\ HasExt(files, ExtIni))
               /\ (\E r \in StoredRowsOf("songA") : files = r[5]) => k \in KeptIds
               /\ (\E r \in StoredRowsOf("songB") : files = r[5]) => k \notin KeptIds

\* a manifest built from the stored rows of songA (listed as c.ini, a.opus,
\* b.chart) and of songB (a.opus, c.ini): the first is kept, the second
\* dropped
C15_Witness ==
    /\ manifest.built
    /\ Len(result_rows) = 3
    /\ result_rows[2][5] = StoredRow("songA", <<"c.ini", "a.opus", "b.chart">>)[5]
    /\ result_rows[3][5] = StoredRow("songB", <<"a.opus", "c.ini">>)[5]
    /\ 2 \in KeptIds
    /\ 3 \notin KeptIds

(* ------------------------------ C16 ------------------------------------ *)

\* C16: after _collect_valid_songs, total_songs is the number of input rows,
\* every row went to exactly one of kept_dirs and dropped_missing, and the
\* number of manifest rows is kept_dirs.
C16_ManifestCounters ==
    manifest.built =>
        /\ manifest.metadata.total_songs = Len(result_rows)
        /\ manifest.metadata.total_songs
             = manifest.metadata.kept_dirs + manifest.metadata.dropped_missing
        /\ Len(manifest.rows) = manifest.metadata.kept_dirs
        /\ manifest.metadata.kept_dirs >= 0
        /\ manifest.metadata.dropped_missing >= 0

\* three rows went in: two were kept and one was dropped
C16_Witness ==
    /\ manifest.built
    /\ Len(result_rows) = 3
    /\ manifest.metadata.total_songs = 3
    /\ manifest.metadata.kept_dirs = 2
    /\ manifest.metadata.dropped_missing = 1
    /\ Len(manifest.rows) = 2

(* ------------------------------ C17 ------------------------------------ *)

\* C17: _remove_s3_uuid_prefix is idempotent: applied to its own result it
\* changes nothing, also for a path with whitespace before the prefix and
\* for a path that carries the prefix twice.
C17_StripIdempotent ==
    \A k \in 1..Len(result_rows) :
        \A j \in 1..Len(result_rows[k][5]) :
            LET storage_path == result_rows[k][5][j].storage_path
            IN _remove_s3_uuid_prefix(_remove_s3_uuid_prefix(storage_path))
                 = _remove_s3_uuid_prefix(storage_path)

(* ------------------------------ C18 ------------------------------------ *)

\* a sensor tick, the process_directory ops of both directories and one
\* materialisation of the manifest asset have all come to their end
E2EDone ==
    /\ \E p \in JobPollers : poller[p].pc \in {"skipped", "raised"}
    /\ \A n \in Names : Ended(run[n])
    /\ manifest.built \/ manifest.raised # "none"

\* C18: songA holds audio, chart and info files and songB has no chart file;
\* once a sensor tick, the runs of both directories and one manifest build
\* have ended, nothing having failed from outside, both claims are
\* completed, the manifest has exactly one row, the row of songA, and the
\* counts are total 2, kept 1 and dropped 1.
C18_EndToEnd ==
    E2EDone =>
        /\ \A n \in Names : HasStatus(n, "completed")
        /\ manifest.built
        /\ Len(manifest.rows) = 1
        /\ manifest.rows[1].dirname = "songA"
        /\ manifest.metadata = [total_songs |-> 2, kept_dirs |-> 1,
                                dropped_missing |-> 1]

(* ------------------------------ C19 ------------------------------------ *)

\* C19: directory_metadata never holds two rows for one dirname, every row's
\* dirname has a row in directory_processing_state, and no step (a claim,
\* complete, fail, the sweep, process_directory, a store or a read of
\* directory_metadata, the manifest build) changes or removes a row that is
\* stored.
C19_MetadataOnceAndNeverChanged ==
    /\ [](\A n \in Names :
            /\ Len(RowsOf(n)) <= 1
            /\ \A l \in pg_get_directory_metadata(metadata, n) : Len(l) <= 1
            /\ RowsOf(n) # << >> => n \in DOMAIN claims)
    /\ [](\A k \in 1..Len(metadata) : metadata[k].dirname \in Names)
    /\ [][/\ Len(metadata') >= Len(metadata)
          /\ \A k \in 1..Len(metadata) : metadata'[k] = metadata[k]]_vars

(* ------------------------------ C20 ------------------------------------ *)

\* directory n has a row, and stands under the watch root again with a
\* modification time later than its claim
Recreated(n) ==
    /\ n \in DOMAIN claims
    /\ n \in DOMAIN fs
    /\ claims[n].started_at < fs[n]

\* the names a tick that begins in this step selects for its loop
Selected(p) == {poller'[p].new_dirs_list[j] : j \in 1..Len(poller'[p].new_dirs_list)}

\* name m sorts before name n
NameBefore(m, n) ==
    \E i, j \in 1..Len(NameOrder) :
       NameOrder[i] = m /\ NameOrder[j] = n /\ i < j

\* C20: a directory that was claimed and is created again under the same
\* name with a new modification time is a distinct unit of work for the
\* sensor: a tick that has listed it while it stands there selects it
\* (unless the batch is taken up by names that sort before it).
C20_RecreatedIsNewUnitOfWork ==
    [][\A p \in Pollers, n \in Names :
         (/\ \E b \in 1..MaxBatch : TickBegin(p, b)
          /\ Recreated(n)
          /\ n \in poller[p].current_dirs) =>
            \/ n \in Selected(p)
            \/ \E m \in Selected(p) : NameBefore(m, n)]_vars

(* ------------------------------ C21 ------------------------------------ *)

\* new = currentDirs minus knownNames for the tick of p: the directories of
\* its listing that have no row
NewNames(p) == poller[p].current_dirs \ DOMAIN claims

\* C21: a tick with batch limit b goes on to claim the min(b, |new|)
\* smallest names of new = current directories (as it listed them) minus
\* known names, in ascending order, and no other; when new is empty the tick
\* ends with nothing selected; the selection itself writes nothing.
C21_TickSelectsSmallestNewNames ==
    [][\A p \in Pollers, b \in 1..MaxBatch :
         LET sel == poller'[p].new_dirs_list
         IN TickBegin(p, b) =>
              /\ claims' = claims /\ inflight' = inflight
              /\ emitted' = emitted
              /\ IF NewNames(p) = {}
                 THEN poller'[p].pc = "skipped" /\ sel = << >>
                 ELSE /\ poller'[p].pc = "loop"
                      /\ Len(sel) = IF b < Cardinality(NewNames(p))
                                    THEN b ELSE Cardinality(NewNames(p))
                      /\ \A j \in 1..Len(sel) : sel[j] \in NewNames(p)
                      /\ \A j, k \in 1..Len(sel) :
                            j < k => NameBefore(sel[j], sel[k])
                      /\ \A m \in NewNames(p) \ Selected(p) :
                            \A j \in 1..Len(sel) : NameBefore(sel[j], m)]_vars

(* ------------------------------ C22 ------------------------------------ *)

\* C22: a tick that starts while the watch root is missing ends without an
\* error, with the SkipReason "Directory not found": it takes no listing,
\* does not call the store, selects nothing, yields no RunRequest and leaves
\* both tables as they are.
C22_MissingRootSkips ==
    [][\A p \in Pollers :
         (~watch_dir /\ poller[p].pc = "idle") =>
            /\ poller'[p].pc \in {"idle", "skipped"}
            /\ ~TickList(p)
            /\ TickSkip(p) =>
                 /\ poller'[p].tick_result = "Directory not found"
                 /\ poller'[p].new_dirs_list = << >>
                 /\ tables' = tables
                 /\ claims' = claims /\ inflight' = inflight
                 /\ metadata' = metadata
                 /\ emitted' = emitted]_vars

\* the watch root is missing, a tick has returned "Directory not found",
\* and the row claimed before the root went away is still there
C22_Witness ==
    /\ ~watch_dir
    /\ \E p \in Pollers :
         /\ poller[p].pc = "skipped"
         /\ poller[p].tick_result = "Directory not found"
         /\ \A q \in Pollers \ {p} : poller[q].pc = "idle"
    /\ HasStatus("songA", "processing")
    /\ emitted = << >>

(* ------------------------------ C23 ------------------------------------ *)

\* C23: once a row's status is completed or failed no step changes it
\* again, under any interleaving of complete, fail, sweep and claim.
C23_TerminalStatusNeverChanges ==
    [][\A n \in Names :
         (HasStatus(n, "completed") \/ HasStatus(n, "failed")) =>
            /\ n \in DOMAIN claims'
            /\ claims'[n].status = claims[n].status]_vars

(* ------------------------------ C25 ------------------------------------ *)

\* C25: a row comes to status processing only by the INSERT of a claim on a
\* name that had no row: no complete, fail or sweep moves a completed or
\* failed row back to processing; and a name never has more than one row:
\* the rows are exactly the names for which one claim returned True.
C25_OnlyClaimEntersProcessing ==
    /\ [][\A n \in Names :
            (/\ n \in DOMAIN claims'
             /\ claims'[n].status = "processing"
             /\ ~HasStatus(n, "processing")) =>
               /\ n \notin DOMAIN claims
               /\ \E c \in Callers : PgClaimCommit(c) /\ call[c].name = n]_vars
    /\ [](\A n \in Names :
            Cardinality(CallersOf(n, "true")) =
               IF n \in DOMAIN claims THEN 1 ELSE 0)

\* songA was claimed once and completed an hour ago or earlier, and a later
\* claim on it returned False
C25_Witness ==
    /\ HasStatus("songA", "completed")
    /\ CallersOf("songA", "true") # {}
    /\ CallersOf("songA", "false") # {}
    /\ claims["songA"].completed_at < now

(* ------------------------------ C26 ------------------------------------ *)

\* C26: in every reachable state a row has completed_at unset exactly when
\* its status is processing: the INSERT of claim leaves completed_at NULL,
\* and every step that sets a row's status to completed or failed sets its
\* completed_at to the time of the call that makes the step (the
\* CURRENT_TIMESTAMP of its transaction).
C26_CompletedAtUnsetIffProcessing ==
    /\ [](\A n \in DOMAIN claims :
            claims[n].completed_at = NULL <=> claims[n].status = "processing")
    /\ [][\A n \in DOMAIN claims' :
            /\ n \notin DOMAIN claims =>
                 /\ claims'[n].status = "processing"
                 /\ claims'[n].completed_at = NULL
            /\ (n \in DOMAIN claims /\ claims'[n] # claims[n]) =>
                 /\ claims'[n].status \in {"completed", "failed"}
                 /\ claims'[n].completed_at = lastOp'.at]_vars

\* one row is processing with completed_at unset, the other was failed by a
\* sweep at the current time
C26_Witness ==
    /\ HasStatus("songA", "failed")
    /\ claims["songA"].completed_at = now
    /\ lastOp.op = "pg.cleanup_stuck_directories" /\ lastOp.ret = 1
    /\ HasStatus("songB", "processing")
    /\ claims["songB"].completed_at = NULL

(* ------------------------------ C29 ------------------------------------ *)

\* the positions of the files whose lowercased name ends with ext
Candidates(files, ext) ==
    {j \in 1..Len(files) : endswith(lower(strip(files[j].filename)), ext)}

\* C29: after _collect_valid_songs has run, for every row it was given, for
\* the chart class and for the info class, each on its own: when
\* the file list has no candidate nothing is selected; otherwise the
\* selected path is the normalized path of a candidate that no other
\* candidate exceeds in size, nor, at equal size, in lowercased filename;
\* and a row the manifest keeps carries these two paths.
C29_PicksLargestThenGreatestName ==
    manifest.built => \A k \in 1..Len(result_rows) :
       LET files == result_rows[k][5]
       IN /\ \A ext \in {ExtChart, ExtIni} :
               LET picked == _pick_single_storage_path(_filter_required(files), ext)
                   cand == Candidates(files, ext)
               IN IF cand = {} THEN picked = NoPath
                  ELSE \E j \in cand :
                          /\ picked = _remove_s3_uuid_prefix(files[j].storage_path)
                          /\ \A m \in cand :
                                /\ files[m].file_size <= files[j].file_size
                                /\ files[m].file_size = files[j].file_size =>
                                     ~StrLess(lower(strip(files[j].filename)),
                                              lower(strip(files[m].filename)))
          /\ \A r \in 1..Len(manifest.rows) :
               manifest.rows[r].dir_id = k =>
                  /\ manifest.rows[r].chart_path =
                       _pick_single_storage_path(_filter_required(files), ExtChart)
                  /\ manifest.rows[r].ini_path =
                       _pick_single_storage_path(_filter_required(files), ExtIni)

\* _collect_valid_songs has run over a row whose files are c.ini of size 1,
\* a.ini of size 4 and n.chart, in some order: a.ini is picked for its size
\* although its name is the smaller one, and n.chart as the only chart file
C29_Witness ==
    /\ manifest.built
    /\ \E p \in Permutations(1..3) :
         LET files == result_rows[1][5]
         IN /\ Len(files) = 3
            /\ files[p[1]].filename = <<"c", ".", "i", "n", "i">>
            /\ files[p[2]].filename = <<"a", ".", "i", "n", "i">>
            /\ files[p[3]].filename = <<"n", ".", "c", "h", "a", "r", "t">>
            /\ _pick_single_storage_path(_filter_required(files), ExtIni)
                 = PathOf(<<"a", ".", "i", "n", "i">>)
            /\ _pick_single_storage_path(_filter_required(files), ExtChart)
                 = PathOf(<<"n", ".", "c", "h", "a", "r", "t">>)

(* ------------------------------ C30 ------------------------------------ *)

\* file f comes strictly before file g by (lowercased filename, raw storage
\* path)
AudioBefore(f, g) ==
    \/ StrLess(lower(strip(f.filename)), lower(strip(g.filename)))
    \/ /\ lower(strip(f.filename)) = lower(strip(g.filename))
       /\ StrLess(f.storage_path, g.storage_path)

\* C30: after _collect_valid_songs has run, for every row it was given,
\* _sorted_opus_paths returns one normalized path for each audio file
\* of the list and nothing else, the files taken in ascending order of
\* (lowercased filename, raw storage path); a row the manifest keeps
\* carries that list.
C30_AllAudioInOrder ==
    manifest.built => \A k \in 1..Len(result_rows) :
       LET files == result_rows[k][5]
           audio == Candidates(files, ExtOpus)
           out == _sorted_opus_paths(_filter_required(files))
       IN /\ Len(out) = Cardinality(audio)
          /\ \E g \in [1..Len(out) -> audio] :
               /\ \A j, m \in 1..Len(out) : g[j] = g[m] => j = m
               /\ \A j \in 1..Len(out) :
                     out[j] = _remove_s3_uuid_prefix(files[g[j]].storage_path)
               /\ \A j, m \in 1..Len(out) :
                     j < m => ~AudioBefore(files[g[m]], files[g[j]])
          /\ \A r \in 1..Len(manifest.rows) :
               manifest.rows[r].dir_id = k =>
                  manifest.rows[r].opus_paths = json_dumps(out)

\* _collect_valid_songs has run over a row whose files are Z.OPUS, a.opus
\* and A.opus in that order: the paths come out for A.opus, a.opus, Z.OPUS
C30_Witness ==
    /\ manifest.built
    /\ LET files == result_rows[1][5]
           out == _sorted_opus_paths(_filter_required(files))
       IN /\ Len(files) = 3
          /\ files[1].filename = <<"Z", ".", "O", "P", "U", "S">>
          /\ files[2].filename = <<"a", ".", "o", "p", "u", "s">>
          /\ files[3].filename = <<"A", ".", "o", "p", "u", "s">>
          /\ out = <<PathOf(<<"A", ".", "o", "p", "u", "s">>),
                     PathOf(<<"a", ".", "o", "p", "u", "s">>),
                     LocalPrefix \o PathOf(<<"Z", ".", "O", "P", "U", "S">>)>>

(* ------------------------------ C31 ------------------------------------ *)

\* s starts with the address prefix: s3://uns/ and a 36-character UUID of
\* lowercase hexadecimal digits in groups of 8, 4, 4, 4 and 12
StartsWithPrefix(s) ==
    /\ Len(s) >= 45
    /\ SubSeq(s, 1, 9) = <<"s", "3", ":", "/", "/", "u", "n", "s", "/">>
    /\ \A k \in 10..45 :
         IF k \in {18, 23, 28, 33} THEN s[k] = "-" ELSE s[k] \in HexDigits

\* t is u without the whitespace around it
Trimmed(u, t) ==
    /\ t # << >> => (t[1] # " " /\ t[Len(t)] # " ")
    /\ \E a \in 0..(Len(u) - Len(t)) :
         /\ SubSeq(u, a + 1, a + Len(t)) = t
         /\ \A k \in 1..Len(u) :
               (k <= a \/ k > a + Len(t)) => u[k] = " "

\* a stored path as it is (the stored paths have no prefix, one, two, or a
\* space and one), and with the address prefix before it and spaces around
\* the rest
PathVariants(s) ==
    {s, LocalPrefix \o <<" ">> \o s \o <<" ">>}

\* the storage paths of the rows handed to _collect_valid_songs
StoredPaths ==
    UNION {{result_rows[k][5][j].storage_path : j \in 1..Len(result_rows[k][5])} :
             k \in 1..Len(result_rows)}

\* C31: after _collect_valid_songs has run, for every storage path it was
\* given, _remove_s3_uuid_prefix returns a path that starts with the address
\* prefix without that prefix and without the whitespace around the rest,
\* and returns a path that does not start with the prefix unchanged except
\* for the whitespace around it.
C31_PathNormalization ==
    manifest.built => \A stored \in StoredPaths :
       \A s \in PathVariants(stored) :
          IF StartsWithPrefix(s)
          THEN Trimmed(SubSeq(s, 46, Len(s)), _remove_s3_uuid_prefix(s))
          ELSE Trimmed(s, _remove_s3_uuid_prefix(s))

\* the manifest kept a row whose audio path was stored with the address
\* prefix, whose chart path was stored without it and whose info path was
\* stored with a space before the prefix: the first comes out without the
\* prefix, the second as it was, the third trimmed and with its prefix
C31_Witness ==
    /\ manifest.built
    /\ Len(manifest.rows) >= 1
    /\ manifest.rows[1].dir_id = 1
    /\ result_rows[1][5][1].storage_path
         = LocalPrefix \o PathOf(<<"a", ".", "o", "p", "u", "s">>)
    /\ manifest.rows[1].opus_paths
         = json_dumps(<<PathOf(<<"a", ".", "o", "p", "u", "s">>)>>)
    /\ manifest.rows[1].chart_path = PathOf(<<"b", ".", "c", "h", "a", "r", "t">>)
    /\ manifest.rows[1].ini_path
         = LocalPrefix \o PathOf(<<"c", ".", "i", "n", "i">>)

(* ------------------------------ C32 ------------------------------------ *)

\* the sum of the file sizes of a list of file records
RECURSIVE SumOfSizes(_)
SumOfSizes(files) ==
    IF files = << >> THEN 0
    ELSE Head(files).file_size + SumOfSizes(Tail(files))

\* C32: once process_directory has ended for a directory whose uploads all
\* went through, the directory is processed: one directory_metadata row of
\* its name is stored, with file_count equal to the number of its file
\* records and total_size equal to the sum of their sizes, and its file
\* records are, in the order of the run's listing (the upload order), one
\* per regular file of the directory, each with the file's size and the
\* storage path data-collection/collected/<dirname>/<filename>.
C32_MetadataMatchesDirectory ==
    \A n \in Names :
       AllUploaded(n) =>
          LET rows == RowsOf(n)
          IN /\ Len(rows) = 1
             /\ rows[1].file_count = Len(rows[1].files_json)
             /\ rows[1].total_size = SumOfSizes(rows[1].files_json)
             /\ Len(rows[1].files_json) = Cardinality(dir_files[n])
             /\ {run[n].files[j] : j \in 1..Len(run[n].files)} = dir_files[n]
             /\ \A j \in 1..Len(rows[1].files_json) :
                  /\ rows[1].files_json[j].filename = run[n].files[j]
                  /\ rows[1].files_json[j].file_size = FileSize(run[n].files[j])
                  /\ rows[1].files_json[j].storage_path =
                       <<"data-collection", "collected", n, run[n].files[j]>>

(* ------------------------------ C33 ------------------------------------ *)

\* directory n holds no regular file
IsEmptyDir(n) == dir_files[n] = {}

\* C33: a claimed directory without regular files goes through
\* process_directory as a success: the run uploads nothing, stores a row
\* with file_count 0, total_size 0 and no file record, completes the claim,
\* and delete_src_dir is executed and removes the directory; a manifest
\* built afterwards does not keep its row and counts it among the dropped.
C33_EmptyDirectoryIsSuccess ==
    /\ [](\A n \in Names :
            IsEmptyDir(n) =>
               /\ ObjectsOf(n) = {}
               /\ Ended(run[n]) =>
                    /\ run[n].pc = "success"
                    /\ HasStatus(n, "completed")
                    /\ Len(RowsOf(n)) = 1
                    /\ RowsOf(n)[1].file_count = 0
                    /\ RowsOf(n)[1].total_size = 0
                    /\ RowsOf(n)[1].files_json = << >>
               /\ run[n].cleanup # "pending" =>
                    /\ run[n].cleanup = "done"
                    /\ n \notin DOMAIN fs)
    /\ [][BuildManifest =>
            \A k \in 1..Len(metadata) :
               IsEmptyDir(metadata[k].dirname) =>
                  /\ manifest'.built
                  /\ \A r \in 1..Len(manifest'.rows) :
                        manifest'.rows[r].dir_id # metadata[k].id
                  /\ manifest'.metadata.total_songs = Len(metadata)
                  /\ manifest'.metadata.dropped_missing >= 1]_vars

====
